---- MODULE Spec2Model ----
(***************************************************************************)
(* Acquisition engine of the partial-discharge monitor: the register       *)
(* readers (AllSensorsReader), the worker threads (TelemetryWorker,        *)
(* WaveformsWorker) and the scheduler slots of AllSensorsApp in            *)
(* all_sensors_reader_pyside_threaded.py.                                  *)
(*                                                                         *)
(* The GUI thread runs one slot at a time; a slot is one action, except    *)
(* that a slot calling QApplication.processEvents() is cut there, because  *)
(* other slots are dispatched re-entrantly inside that call.  A worker     *)
(* thread advances one statement of run() at a time; the reads of one      *)
(* reader call are one step in Spec and SpecRace and one step per          *)
(* transport call in SpecPoll and SpecReads.  Signals emitted by a worker  *)
(* are queued to the GUI thread.  Names of telemetry values and waveform   *)
(* channels are ASCII labels for the dict keys of the code.                *)
(***************************************************************************)
EXTENDS Integers, Sequences, FiniteSets, TLC

\* ---------------------------------------------------------------- bounds
MaxReaders == 2      \* AllSensorsReader objects alive at once
MaxWorkers == 2      \* worker thread objects alive at once (one more in SpecRace)
MaxDepth   == 1      \* slots suspended inside processEvents at once
MaxIndex   == 1      \* highest auto_refresh_combo index exercised
MaxRegisters == 3    \* longest response.registers given to read_float
MaxPolls   == 2      \* reader calls followed object by object
MaxReadCount == 130  \* largest max_read_count given to read_waveform_data

\* ------------------------------------------------------ program constants
MAX_READ_COUNT  == 125     \* read_waveform_data(max_read_count=125)
CHANNEL_WIDTH   == 128     \* 'registers_to_read': 128
TEV_BASE        == 2000
ULTRASONIC_BASE == 2128
UHF_BASE        == 2256
WORD            == 65536   \* a register is 16 bits
BYTE            == 256

\* read_telemetry_data: the seven scalar reads, in the order the code issues them
TelemetrySpecs ==
  << [name |-> "TEV_count",     address |-> 100, kind |-> "short"],
     [name |-> "TEV_mV",        address |-> 109, kind |-> "short"],
     [name |-> "ultrasonic_mV", address |-> 110, kind |-> "short"],
     [name |-> "UHF_mV",        address |-> 111, kind |-> "short"],
     [name |-> "TEV_dB",        address |-> 102, kind |-> "float"],
     [name |-> "ultrasonic_dB", address |-> 104, kind |-> "float"],
     [name |-> "UHF_dB",        address |-> 106, kind |-> "float"] >>

TelemetryNames == { TelemetrySpecs[k].name : k \in 1..Len(TelemetrySpecs) }

\* read_waveform_data: waveform_info, in dict (insertion) order
WaveformInfo ==
  << [name |-> "TEV_waveform",        start_address |-> TEV_BASE,
      registers_to_read |-> CHANNEL_WIDTH],
     [name |-> "ultrasonic_waveform", start_address |-> ULTRASONIC_BASE,
      registers_to_read |-> CHANNEL_WIDTH],
     [name |-> "UHF_waveform",        start_address |-> UHF_BASE,
      registers_to_read |-> CHANNEL_WIDTH] >>

WaveformNames == { WaveformInfo[k].name : k \in 1..Len(WaveformInfo) }

Min(a, b) == IF a < b THEN a ELSE b

\* ------------------------------------------------------------ the device
\* Content of the device's input register at an address (a fixed register image).
RegAt(a) == (a * 4099 + 77) % WORD

\* response.registers of a successful read of count registers at address
Registers(address, count) == [k \in 1..count |-> RegAt(address + k - 1)]

\* What one read_input_registers call can produce: a normal response ("ok"),
\* an error response, isError() true ("err"), or a raised exception ("exc").
Outcomes(dev) ==
  IF dev = "up" THEN {"ok"}
  ELSE IF dev = "down" THEN {"exc"}
  ELSE {"ok", "err", "exc"}

\* ------------------------------------------------------ register decoding
\* A 32-bit word, and the bit pattern of a float32, is written as its high and
\* low 16-bit halves << hi, lo >>.

\* BinaryPayloadDecoder.fromRegisters(registers, ...): the payload is the
\* registers in the order received, each packed big-endian.
PayloadBytes(registers) ==
  [k \in 1..(2 * Len(registers)) |->
     IF k % 2 = 1 THEN registers[(k + 1) \div 2] \div BYTE
     ELSE registers[(k + 1) \div 2] % BYTE]

\* a decoder built with wordorder=Endian.BIG: the words stay as received
UnpackWordsBigOrder(handle) == handle

\* BinaryPayloadDecoder with wordorder=Endian.LITTLE: the 16-bit words of the
\* bytes taken for one value are reversed before the value is unpacked
UnpackWords(handle) ==
  LET n == Len(handle) \div 2 IN
  [k \in 1..Len(handle) |->
     handle[2 * (n - (k + 1) \div 2) + (IF k % 2 = 1 THEN 1 ELSE 2)]]

\* struct.unpack('!f', four bytes): the float with that bit pattern
UnpackF(b) == [t |-> "float", v |-> << b[1] * BYTE + b[2], b[3] * BYTE + b[4] >>]

\* an exception is raised instead of a value returned
Raised == [t |-> "raise", v |-> << >>]

\* decode_32bit_float: the first four payload bytes; struct.error if there are
\* fewer
Decode32BitFloat(payload) ==
  IF Len(payload) < 4 THEN Raised
  ELSE UnpackF(UnpackWords(SubSeq(payload, 1, 4)))

\* AllSensorsReader.read_float, after a successful response: the two decoder calls
DecodeFloat(registers) == Decode32BitFloat(PayloadBytes(registers))

\* Python values held in a snapshot: None, an int, a float
NoneValue   == [t |-> "None", v |-> << >>]
IntValue(n) == [t |-> "int",  v |-> << n >>]

\* AllSensorsReader.read_float, after a successful response: what it returns
\* (except Exception: return None)
ReadFloatResult(registers) ==
  LET v == DecodeFloat(registers) IN IF v = Raised THEN NoneValue ELSE v

\* a | b on non-negative ints
RECURSIVE BitOr(_, _)
BitOr(a, b) ==
  IF a = 0 THEN b
  ELSE IF b = 0 THEN a
  ELSE 2 * BitOr(a \div 2, b \div 2) + (IF a % 2 = 1 \/ b % 2 = 1 THEN 1 ELSE 0)

\* a register shifted by one byte only
ShiftLeft8(r) == << r \div BYTE, (r % BYTE) * BYTE >>

\* r << 16 for a 16-bit register r
ShiftLeft16(r) == << r, 0 >>

\* UHFMonitor.read_float:  combined = (registers[1] << 16) | registers[0]
Combined(registers) ==
  LET h == ShiftLeft16(registers[2]) IN << BitOr(h[1], 0), BitOr(h[2], registers[1]) >>

\* struct.pack('<I', combined): four bytes, least significant first
PackLittleEndian(c) == << c[2] % BYTE, c[2] \div BYTE, c[1] % BYTE, c[1] \div BYTE >>

\* struct.pack('!I', combined): four bytes, most significant first
PackI(c) == << c[1] \div BYTE, c[1] % BYTE, c[2] \div BYTE, c[2] % BYTE >>

\* UHFMonitor.read_float, after a successful response: what it returns;
\* registers[1] raises IndexError on a shorter list (except Exception: return None)
UhfReadFloatResult(registers) ==
  IF Len(registers) < 2 THEN NoneValue ELSE UnpackF(PackI(Combined(registers)))

\* AllSensorsReader.read_short, after a successful response
DecodeShort(registers) == registers[1]

\* ------------------------------------------------------------------ state
VARIABLES
  reader,            \* AllSensorsApp.reader: a reader id, 0 for None
  connected,         \* AllSensorsReader.connected, per reader object
  timerActive,       \* AllSensorsApp.timer.isActive()
  comboIndex,        \* auto_refresh_combo.currentIndex()
  telemetry_worker,  \* AllSensorsApp.telemetry_worker: a worker id, 0 for None
  waveforms_worker,  \* AllSensorsApp.waveforms_worker: a worker id, 0 for None
  workers,           \* the worker thread objects
  queue,             \* signals queued to the GUI thread, oldest first
  stack,             \* slots of the GUI thread suspended in processEvents
  device,            \* how the device answers: "up", "down" or "flaky"
  pool,              \* how many worker thread objects may be alive at once
  crashed,           \* the process was aborted by Qt
  closeObs,          \* what held when reader.disconnect() was last called
  refused,           \* a poll trigger was refused since the last successful connect
  response,          \* response.registers of the float read being decoded
  decoded,           \* what read_float made of it, and which reader class did
  heap,              \* the dict and list objects the reader calls have created
  frame,             \* the reader call under way: its locals and the objects they name
  mail,              \* data_ready signals queued, each carrying a reference to a dict
  held,              \* the snapshots the handlers were given, with what they saw
  loop,              \* one channel's chunk loop run with a max_read_count of its own
  app,               \* which of the three applications is running
  exceptObs          \* how the last update_data of the UHF monitor ended

\* the state of the specifications of single functions, and the application
\* chosen at start-up
decodeVars == << response, decoded >>
snapVars   == << heap, frame, mail, held >>
unitVars   == << decodeVars, snapVars, loop, app, exceptObs >>

\* no read_float call is being followed
NoDecode == [by |-> "none", word |-> << >>, value |-> [t |-> "unset", v |-> << >>]]

\* most polls followed object by object
ObjIds == 1..(7 * MaxPolls)

\* an object id not in use
FreeObj == [kind |-> "free", items |-> << >>]

SnapIdle ==
  /\ heap = [o \in ObjIds |-> FreeObj]
  /\ frame = [wk |-> [pc |-> "free"], ref |-> 0, lref |-> 0, polls |-> 0]
  /\ mail = << >>
  /\ held = << >>

\* no read_uhf_waveform call is being followed
UhfFree == [pc |-> "free"]

LoopIdle ==
  loop = [wk |-> [pc |-> "free"], k |-> 0, max_read_count |-> 0, uhf |-> UhfFree]

UnitIdle == response = << >> /\ decoded = NoDecode /\ SnapIdle /\ LoopIdle

vars == << reader, connected, timerActive, comboIndex, telemetry_worker,
           waveforms_worker, workers, queue, stack, device, pool, unitVars, crashed, closeObs,
           refused >>

ReaderIds == 1..MaxReaders
WorkerIds == 1..(MaxWorkers + 1)

\* A Python dict is the sequence of its (name, value) entries in insertion order.
Keys(d)   == { d[k].name : k \in 1..Len(d) }
Get(d, n) == d[CHOOSE k \in 1..Len(d) : d[k].name = n].value

\* d.get(n, default)
GetOr(d, n, default) == IF n \in Keys(d) THEN Get(d, n) ELSE default

\* MonitorCanvas.init_plot(title): cleared axes with the title
init_plot(title) == [title |-> title, curve |-> << >>]

\* MonitorCanvas.update_plot(data, title): the curve is drawn only if data is
\* not empty
update_plot(data, title) ==
  [title |-> title, curve |-> IF data # << >> THEN data ELSE << >>]

\* _handle_waveforms_data: what the canvas of channel name shows for a dict
ShownFor(d, name) == update_plot(GetOr(d, name, << >>), name)

\* clear_display: what the canvas of channel name shows before any read
ShownBeforeRead(name) == init_plot(name)

\* A worker slot not holding a thread object
NoWorker ==
  [ cls |-> "none", reader |-> 0, is_running |-> FALSE, pc |-> "free",
    idx |-> 0, remaining |-> 0, address |-> 0, count |-> 0,
    buf |-> << >>, data |-> << >>, ret |-> "unset", txlog |-> << >>,
    emitted |-> "none", doomed |-> FALSE ]

\* TelemetryWorker(reader) / WaveformsWorker(reader) followed by start()
NewWorker(cls, r) ==
  [ NoWorker EXCEPT !.cls = cls, !.reader = r, !.is_running = TRUE, !.pc = "start" ]

\* run() is left: the locals of run() and of the reader call are gone; what is
\* left of the thread object is its class, its flag and what it emitted
Returning(wk, emitted) ==
  [ NoWorker EXCEPT !.cls = wk.cls, !.reader = wk.reader, !.is_running = wk.is_running,
                    !.pc = "return", !.emitted = emitted, !.doomed = wk.doomed ]

\* the thread has finished: the object no longer uses its reader
Finished(wk) ==
  [ NoWorker EXCEPT !.cls = wk.cls, !.is_running = wk.is_running, !.pc = "done" ]

\* WorkerThread.stop(): the cooperative cancellation flag
Stopped(wk) == [ wk EXCEPT !.is_running = FALSE ]

\* QThread.isRunning(): from start() until run() has returned
IsRunning(w) == workers[w].pc \notin {"free", "done"}

\* a read_input_registers call of this worker is on the wire
InFlight(w) == workers[w].pc \in {"read_wait", "chunk_wait"}

\* the worker is inside read_telemetry_data / read_waveform_data
Reading(w) ==
  workers[w].pc \in {"read_check", "read_issue", "read_wait", "chunk_issue", "chunk_wait"}

GuiUnchanged ==
  UNCHANGED << reader, connected, timerActive, comboIndex, telemetry_worker,
               waveforms_worker, stack, device, pool, unitVars, crashed, closeObs, refused >>

\* ---------------------------------------------------------- worker threads
\* WorkerThread.run / WaveformsWorker.run, first test:
\*   if not self.reader or not self.reader.connected
RunCheck(w) ==
  LET wk == workers[w] IN
  /\ ~crashed /\ wk.pc = "start"
  /\ workers' = [workers EXCEPT ![w].pc =
        IF wk.reader = 0 \/ ~connected[wk.reader] THEN "notconn_flag" ELSE "enter"]
  /\ UNCHANGED queue /\ GuiUnchanged

\*   if self._is_running: self.error_occurred.emit(...)   (the test)
NotConnectedFlag(w) ==
  LET wk == workers[w] IN
  /\ ~crashed /\ wk.pc = "notconn_flag"
  /\ workers' = [workers EXCEPT ![w] =
        IF wk.is_running THEN [wk EXCEPT !.pc = "emit_error"] ELSE Returning(wk, "none")]
  /\ UNCHANGED queue /\ GuiUnchanged

\* self.error_occurred.emit(...): queued to _handle_worker_error
EmitError(w) ==
  LET wk == workers[w] IN
  /\ ~crashed /\ wk.pc = "emit_error"
  /\ queue' = Append(queue, [sig |-> "error_occurred", w |-> w])
  /\ workers' = [workers EXCEPT ![w] = Returning(wk, "error")]
  /\ GuiUnchanged

\* a channel loop that takes waveform_info from its last entry to its first
StartChannelReversed(wk, k) ==
  LET j == Len(WaveformInfo) + 1 - k IN
  [ wk EXCEPT !.idx = k, !.buf = << >>,
              !.remaining = WaveformInfo[j].registers_to_read,
              !.address = WaveformInfo[j].start_address,
              !.pc = "chunk_issue" ]

\* The channel loop of read_waveform_data starts channel k
StartChannel(wk, k) ==
  [ wk EXCEPT !.idx = k, !.buf = << >>,
              !.remaining = WaveformInfo[k].registers_to_read,
              !.address = WaveformInfo[k].start_address,
              !.pc = "chunk_issue" ]

\* read_telemetry_data / read_waveform_data, first line:
\*   if not self.connected: return None
ReadEnter(w) ==
  LET wk == workers[w] IN
  /\ ~crashed /\ wk.pc = "enter"
  /\ workers' = [workers EXCEPT ![w] =
        IF ~connected[wk.reader]
        THEN [wk EXCEPT !.ret = "None", !.pc = "result_flag"]
        ELSE IF wk.cls = "telemetry"
        THEN [wk EXCEPT !.idx = 1, !.pc = "read_check"]
        ELSE StartChannel(wk, 1)]
  /\ UNCHANGED queue /\ GuiUnchanged

\* read_telemetry_data stores the value of read k and goes on to the next read
StoreValue(wk, val) ==
  LET d == Append(wk.data, [name |-> TelemetrySpecs[wk.idx].name, value |-> val]) IN
  IF wk.idx < Len(TelemetrySpecs)
  THEN [wk EXCEPT !.data = d, !.idx = wk.idx + 1, !.pc = "read_check"]
  ELSE [wk EXCEPT !.data = d, !.ret = "dict", !.pc = "result_flag"]

\* a read_float that asks for one register, like read_short
IssueReadOneRegister(wk) ==
  [wk EXCEPT !.pc = "read_wait", !.address = TelemetrySpecs[wk.idx].address, !.count = 1]

\* read_short / read_float: self.client.read_input_registers(address, count) is sent
IssueRead(wk) ==
  LET sp == TelemetrySpecs[wk.idx] IN
  [wk EXCEPT !.pc = "read_wait", !.address = sp.address,
             !.count = IF sp.kind = "float" THEN 2 ELSE 1]

\* read_short / read_float: what the call returns for an outcome of the transaction
ScalarValue(kind, address, count, o) ==
  IF o # "ok" THEN NoneValue
  ELSE IF kind = "float" THEN ReadFloatResult(Registers(address, count))
  ELSE IntValue(DecodeShort(Registers(address, count)))

\* the transaction is entered in the log of the calls made on the client
Logged(wk, o) ==
  [wk EXCEPT !.txlog = Append(@, [address |-> wk.address, count |-> wk.count,
                                   outcome |-> o])]

\* a read_telemetry_data that gives up at the first failed read
CompleteReadAbort(wk, o) ==
  IF o = "ok"
  THEN StoreValue(Logged(wk, o),
                  ScalarValue(TelemetrySpecs[wk.idx].kind, wk.address, wk.count, o))
  ELSE [Logged(wk, o) EXCEPT !.ret = "dict", !.pc = "result_flag"]

\* a read_short / read_float without its except clause: an exception of the
\* client leaves the reader call and arrives in the except clause of run()
CompleteReadRaises(wk, o) ==
  IF o = "exc"
  THEN [Logged(wk, o) EXCEPT !.pc = "notconn_flag"]
  ELSE StoreValue(Logged(wk, o),
                  ScalarValue(TelemetrySpecs[wk.idx].kind, wk.address, wk.count, o))

\* read_short / read_float: the transaction completes with outcome o
CompleteRead(wk, o) ==
  StoreValue(Logged(wk, o),
             ScalarValue(TelemetrySpecs[wk.idx].kind, wk.address, wk.count, o))

\* a read_telemetry_data that returns None as soon as a read finds the reader
\* disconnected
ReadCheckAbort(w) ==
  LET wk == workers[w] IN
  /\ ~crashed /\ wk.pc = "read_check"
  /\ workers' = [workers EXCEPT ![w] =
        IF ~connected[wk.reader] THEN [wk EXCEPT !.ret = "None", !.pc = "result_flag"]
        ELSE [wk EXCEPT !.pc = "read_issue"]]
  /\ UNCHANGED queue /\ GuiUnchanged

\* read_short / read_float, first line:  if not self.connected: return None
ReadCheck(w) ==
  LET wk == workers[w] IN
  /\ ~crashed /\ wk.pc = "read_check"
  /\ workers' = [workers EXCEPT ![w] =
        IF ~connected[wk.reader] THEN StoreValue(wk, NoneValue)
        ELSE [wk EXCEPT !.pc = "read_issue"]]
  /\ UNCHANGED queue /\ GuiUnchanged

\* the request of read_short / read_float goes out
ReadIssue(w) ==
  LET wk == workers[w] IN
  /\ ~crashed /\ wk.pc = "read_issue"
  /\ workers' = [workers EXCEPT ![w] = IssueRead(wk)]
  /\ UNCHANGED queue /\ GuiUnchanged

\* the transaction of read_short / read_float completes
ReadComplete(w) ==
  LET wk == workers[w] IN
  /\ ~crashed /\ wk.pc = "read_wait"
  /\ \E o \in Outcomes(device) : workers' = [workers EXCEPT ![w] = CompleteRead(wk, o)]
  /\ UNCHANGED queue /\ GuiUnchanged

\* read_telemetry_data from its first read to its return, the reads answered
\* by the outcomes os, with the reader's connected flag as it is now
RECURSIVE RunTelemetry(_, _, _)
RunTelemetry(wk, conn, os) ==
  IF wk.pc # "read_check" THEN wk
  ELSE IF ~conn THEN RunTelemetry(StoreValue(wk, NoneValue), conn, os)
  ELSE RunTelemetry(CompleteRead(IssueRead(wk), os[wk.idx]), conn, os)

\* The reads of one read_telemetry_data call as a single step of the thread.
\* Where among the seven reads another thread runs changes only the values in
\* the snapshot, which no slot of the application and no later statement of
\* run() depends on.
TelemetryBody(w) ==
  LET wk == workers[w] IN
  /\ ~crashed /\ wk.pc = "read_check"
  /\ \E os \in [1..Len(TelemetrySpecs) -> Outcomes(device)] :
       workers' = [workers EXCEPT ![w] = RunTelemetry(wk, connected[wk.reader], os)]
  /\ UNCHANGED queue /\ GuiUnchanged

\* a read_waveform_data that asks for all that remains of the channel at once
IssueChunkUncapped(wk) ==
  [wk EXCEPT !.pc = "chunk_wait", !.count = wk.remaining]

\* a chunk loop that asks for max_read_count registers every time
IssueChunkNoMin(wk, n) ==
  [wk EXCEPT !.pc = "chunk_wait", !.count = n]

\* read_waveform_data(max_read_count=n): count = min(registers_to_read,
\* max_read_count) and the read_input_registers call is sent
IssueChunkWith(wk, n) ==
  [wk EXCEPT !.pc = "chunk_wait", !.count = Min(wk.remaining, n)]

\* the same with the default max_read_count, as every caller has it
IssueChunk(wk) == IssueChunkWith(wk, MAX_READ_COUNT)

\* read_waveform_data: waveforms[name] = value, then the next channel or return
StoreChannel(wk, value, goOn) ==
  LET d == Append(wk.data, [name |-> WaveformInfo[wk.idx].name, value |-> value]) IN
  IF goOn /\ wk.idx < Len(WaveformInfo)
  THEN StartChannel([wk EXCEPT !.data = d], wk.idx + 1)
  ELSE [wk EXCEPT !.data = d, !.ret = "dict", !.pc = "result_flag"]

\* a read_waveform_data that keeps what it has read of a channel when a chunk
\* comes back with an error response
ChunkResultKeepPartial(wk, o) ==
  IF o = "ok"
  THEN LET b == wk.buf \o Registers(wk.address, wk.count)
           r == wk.remaining - wk.count
           a == wk.address + wk.count
       IN  IF r > 0
           THEN [wk EXCEPT !.buf = b, !.remaining = r, !.address = a, !.pc = "chunk_issue"]
           ELSE StoreChannel([wk EXCEPT !.buf = b, !.remaining = r, !.address = a], b, TRUE)
  ELSE IF o = "err"
  THEN StoreChannel(wk, wk.buf, TRUE)
  ELSE StoreChannel(wk, << >>, FALSE)

\* read_waveform_data: the body of the while loop after the call returned
ChunkResult(wk, o) ==
  IF o = "ok"
  THEN LET b == wk.buf \o Registers(wk.address, wk.count)
           r == wk.remaining - wk.count
           a == wk.address + wk.count
       IN  IF r > 0
           THEN [wk EXCEPT !.buf = b, !.remaining = r, !.address = a, !.pc = "chunk_issue"]
           ELSE StoreChannel([wk EXCEPT !.buf = b, !.remaining = r, !.address = a], b, TRUE)
  ELSE IF o = "err"
  THEN StoreChannel(wk, << >>, TRUE)       \* error_occurred = True; break
  ELSE StoreChannel(wk, << >>, FALSE)      \* except: ...; break (leaves the for loop)

\* read_waveform_data: the transaction of one chunk completes with outcome o
CompleteChunk(wk, o) == ChunkResult(Logged(wk, o), o)

\* the request of one waveform chunk goes out
ChunkIssue(w) ==
  LET wk == workers[w] IN
  /\ ~crashed /\ wk.pc = "chunk_issue"
  /\ workers' = [workers EXCEPT ![w] = IssueChunk(wk)]
  /\ UNCHANGED queue /\ GuiUnchanged

\* the transaction of one waveform chunk completes
ChunkComplete(w) ==
  LET wk == workers[w] IN
  /\ ~crashed /\ wk.pc = "chunk_wait"
  /\ \E o \in Outcomes(device) : workers' = [workers EXCEPT ![w] = CompleteChunk(wk, o)]
  /\ UNCHANGED queue /\ GuiUnchanged

\* most transactions one read_waveform_data call can issue
MaxChunks == Len(WaveformInfo) * ((CHANNEL_WIDTH + MAX_READ_COUNT - 1) \div MAX_READ_COUNT)

\* read_waveform_data from its first chunk to its return, transaction k
\* answered by os[k]
RECURSIVE RunWaveform(_, _)
RunWaveform(wk, os) ==
  IF wk.pc # "chunk_issue" THEN wk
  ELSE RunWaveform(CompleteChunk(IssueChunk(wk), os[Len(wk.txlog) + 1]), os)

\* The chunk reads of one read_waveform_data call as a single step of the thread
WaveformBody(w) ==
  LET wk == workers[w] IN
  /\ ~crashed /\ wk.pc = "chunk_issue"
  /\ \E os \in [1..MaxChunks -> Outcomes(device)] :
       workers' = [workers EXCEPT ![w] = RunWaveform(wk, os)]
  /\ UNCHANGED queue /\ GuiUnchanged

\* run, after the read returned:  if self._is_running:  if data: ... else: ...
ResultFlag(w) ==
  LET wk == workers[w] IN
  /\ ~crashed /\ wk.pc = "result_flag"
  /\ workers' = [workers EXCEPT ![w] =
        IF ~wk.is_running THEN Returning(wk, "none")
        ELSE IF wk.ret = "dict" /\ Len(wk.data) > 0 THEN [wk EXCEPT !.pc = "emit_data"]
        ELSE [wk EXCEPT !.pc = "emit_error"]]
  /\ UNCHANGED queue /\ GuiUnchanged

\* self.data_ready.emit(data): queued to _handle_telemetry_data / _handle_waveforms_data
EmitData(w) ==
  LET wk == workers[w] IN
  /\ ~crashed /\ wk.pc = "emit_data"
  /\ queue' = Append(queue, [sig |-> "data_ready", w |-> w])
  /\ workers' = [workers EXCEPT ![w] = Returning(wk, "data")]
  /\ GuiUnchanged

\* run() has returned: isRunning() turns false and QThread.finished is queued
Finish(w) ==
  LET wk == workers[w] IN
  /\ ~crashed /\ wk.pc = "return"
  /\ queue' = Append(queue, [sig |-> "finished", w |-> w])
  /\ workers' = [workers EXCEPT ![w] = Finished(wk)]
  /\ GuiUnchanged

\* ------------------------------------------------------------- GUI thread
\* The state the GUI thread's slots read and write, as one record, so that a
\* slot is the composition of its statements.
Gui ==
  [ reader |-> reader, connected |-> connected, timerActive |-> timerActive,
    comboIndex |-> comboIndex, telemetry_worker |-> telemetry_worker,
    waveforms_worker |-> waveforms_worker, workers |-> workers,
    closeObs |-> closeObs, refused |-> refused ]

Commit(m) ==
  /\ reader' = m.reader
  /\ connected' = m.connected
  /\ timerActive' = m.timerActive
  /\ comboIndex' = m.comboIndex
  /\ telemetry_worker' = m.telemetry_worker
  /\ waveforms_worker' = m.waveforms_worker
  /\ workers' = m.workers
  /\ closeObs' = m.closeObs
  /\ refused' = m.refused

IsConnected(m) == m.reader # 0 /\ m.connected[m.reader]

RunningIn(m, w) == w # 0 /\ m.workers[w].pc \notin {"free", "done"}

\* self.timer.stop()
StopTimer(m) == [m EXCEPT !.timerActive = FALSE]

\* disconnect_device:  if self.telemetry_worker and self.telemetry_worker.isRunning():
\*                         self.telemetry_worker.stop()
\*                     self.telemetry_worker = None
CancelTelemetry(m) ==
  LET w == m.telemetry_worker IN
  [m EXCEPT !.workers = IF RunningIn(m, w) THEN [@ EXCEPT ![w] = Stopped(@)] ELSE @,
            !.telemetry_worker = 0]

\* the same for self.waveforms_worker
CancelWaveforms(m) ==
  LET w == m.waveforms_worker IN
  [m EXCEPT !.workers = IF RunningIn(m, w) THEN [@ EXCEPT ![w] = Stopped(@)] ELSE @,
            !.waveforms_worker = 0]

\* AllSensorsReader.disconnect(): connected is cleared only if client.close()
\* does not raise.  closeObs records the application state at the call, for the
\* workers the application referred to when the slot was entered.
ReaderDisconnect(m, entry, closeRaises) ==
  LET r    == m.reader
      refs == {entry.telemetry_worker, entry.waveforms_worker} \ {0}
  IN  [m EXCEPT
        !.connected = IF m.connected[r] /\ ~closeRaises
                      THEN [@ EXCEPT ![r] = FALSE] ELSE @,
        !.closeObs = [ called |-> TRUE,
                       timer |-> m.timerActive,
                       marked |-> m.telemetry_worker # 0 \/ m.waveforms_worker # 0,
                       uncancelled |-> \E w \in refs :
                                          RunningIn(m, w) /\ m.workers[w].is_running ]]

\* disconnect_device, last part:  if self.reader and self.reader.connected:
\*                                    self.reader.disconnect()
\*                                ...  self.reader = None
CloseConnection(m, entry, closeRaises) ==
  LET s == IF IsConnected(m) THEN ReaderDisconnect(m, entry, closeRaises) ELSE m
  IN  [s EXCEPT !.reader = 0]

\* A disconnect_device that closes the connection first
disconnect_device_close_first(m, closeRaises) ==
  CancelWaveforms(CancelTelemetry(StopTimer(CloseConnection(m, m, closeRaises))))

\* AllSensorsApp.disconnect_device
disconnect_device(m, closeRaises) ==
  CloseConnection(CancelWaveforms(CancelTelemetry(StopTimer(m))), m, closeRaises)

\* a set_auto_refresh that starts the timer for a connected reader whatever the
\* index
set_auto_refresh_any_index(m, index) == [m EXCEPT !.timerActive = IsConnected(m)]

\* AllSensorsApp.set_auto_refresh(index)
set_auto_refresh(m, index) ==
  LET s == StopTimer(m) IN
  IF index = 0 THEN s
  ELSE IF IsConnected(s) THEN [s EXCEPT !.timerActive = TRUE]
  ELSE s

FreeWorkers(m) == { w \in WorkerIds : w <= pool /\ m.workers[w].pc = "free" }
FirstFree(m)   == CHOOSE w \in FreeWorkers(m) : \A v \in FreeWorkers(m) : w <= v

TelemetryIdle(m) == ~RunningIn(m, m.telemetry_worker)
WaveformsIdle(m) == ~RunningIn(m, m.waveforms_worker)

\* A trigger that starts the telemetry worker only when neither class is running
StartTelemetryIfBothIdle(m) ==
  IF TelemetryIdle(m) /\ WaveformsIdle(m)
  THEN LET w == FirstFree(m) IN
       [m EXCEPT !.workers = [@ EXCEPT ![w] = NewWorker("telemetry", m.reader)],
                 !.telemetry_worker = w]
  ELSE m

\* trigger_data_update:  if not self.telemetry_worker or not ...isRunning():
\*                           self.telemetry_worker = TelemetryWorker(self.reader); ...start()
StartTelemetry(m) ==
  IF TelemetryIdle(m)
  THEN LET w == FirstFree(m) IN
       [m EXCEPT !.workers = [@ EXCEPT ![w] = NewWorker("telemetry", m.reader)],
                 !.telemetry_worker = w]
  ELSE m

\* the same for the waveform class
StartWaveforms(m) ==
  IF WaveformsIdle(m)
  THEN LET w == FirstFree(m) IN
       [m EXCEPT !.workers = [@ EXCEPT ![w] = NewWorker("waveform", m.reader)],
                 !.waveforms_worker = w]
  ELSE m

\* trigger_data_update after processEvents() returned
start_workers(m) == StartWaveforms(StartTelemetry(m))

\* a trigger_data_update without the connectivity test: it goes on to the workers
not_connected_ignored(m) == start_workers(m)

\* a trigger_data_update that, finding no connected reader, opens a connection
\* itself
not_connected_reconnects(m) ==
  LET free == { r \in ReaderIds :
                  r # m.reader /\ \A w \in WorkerIds : m.workers[w].pc = "free"
                                                          \/ m.workers[w].reader # r }
  IN  IF free = {} THEN m
      ELSE LET r == CHOOSE q \in free : TRUE IN
           [m EXCEPT !.reader = r, !.connected = [@ EXCEPT ![r] = TRUE]]

\* trigger_data_update when not connected: the timer, if active, is stopped and
\* the combo goes back to manual (which runs set_auto_refresh(0)); no worker
not_connected_branch(m) ==
  LET s == [m EXCEPT !.refused = TRUE] IN
  IF s.timerActive
  THEN set_auto_refresh([StopTimer(s) EXCEPT !.comboIndex = 0], 0)
  ELSE s

\* worker objects start_workers will create
Needed(m) == (IF TelemetryIdle(m) THEN 1 ELSE 0) + (IF WaveformsIdle(m) THEN 1 ELSE 0)

\* reader objects nobody refers to any more
FreeReaders(m) ==
  { r \in ReaderIds : r # m.reader
                        /\ \A w \in WorkerIds : m.workers[w].pc = "free"
                                                   \/ m.workers[w].reader # r }
FirstFreeReader(m) == CHOOSE r \in FreeReaders(m) : \A q \in FreeReaders(m) : r <= q

\* AllSensorsReader.connect() on reader r: self.connected = self.client.connect(),
\* False if the call raises.  result is what self.client.connect() did: "ok",
\* "fail" (returned False) or "exc" (raised).  The client is called whatever
\* the flag was.
connect(conn, r, result) == [conn EXCEPT ![r] = (result = "ok")]

\* connect_device after processEvents() returned, up to the call of
\* trigger_data_update.  result is what self.client.connect() did: "ok", "fail"
\* (returned False) or "exc" (raised).
connect_rest(m, result, closeRaises) ==
  LET s1 == IF IsConnected(m) THEN disconnect_device(m, closeRaises) ELSE m
      r  == FirstFreeReader(s1)
      s2 == [s1 EXCEPT !.reader = r, !.connected = connect(@, r, result)]
  IN  IF result = "ok" THEN set_auto_refresh([s2 EXCEPT !.refused = FALSE], s2.comboIndex)
      ELSE [s2 EXCEPT !.reader = 0]

\* A deferred deletion of a running thread object is due: it is carried out
\* when control is back in the event loop, before any timer or input event.
DeletePending ==
  stack = << >> /\ \E w \in WorkerIds : workers[w].doomed /\ IsRunning(w)

Frame(kind) == [kind |-> kind]
Top == stack[Len(stack)]
Pop == SubSeq(stack, 1, Len(stack) - 1)

\* AllSensorsApp.trigger_data_update, up to processEvents()
TriggerDataUpdate ==
  /\ ~crashed /\ ~DeletePending
  /\ IF ~IsConnected(Gui)
     THEN /\ Commit(not_connected_branch(Gui))
          /\ UNCHANGED stack
     ELSE /\ Len(stack) < MaxDepth
          /\ stack' = Append(stack, Frame("trigger"))
          /\ UNCHANGED << reader, connected, timerActive, comboIndex, telemetry_worker,
                          waveforms_worker, workers, closeObs, refused >>
  /\ UNCHANGED << queue, device, pool, unitVars, crashed >>

\* self.timer.timeout -> trigger_data_update
TimerTick == timerActive /\ TriggerDataUpdate

\* manual_refresh_button.clicked -> trigger_data_update, and update_data()
ManualRefresh == TriggerDataUpdate

\* trigger_data_update: processEvents() returns and the workers are started
TriggerResume ==
  /\ ~crashed
  /\ stack # << >> /\ Top.kind = "trigger"
  /\ Cardinality(FreeWorkers(Gui)) >= Needed(Gui)
  /\ Commit(start_workers(Gui))
  /\ stack' = Pop
  /\ UNCHANGED << queue, device, pool, unitVars, crashed >>

\* AllSensorsApp.connect_device, up to processEvents()
ConnectDevice ==
  /\ ~crashed /\ ~DeletePending
  /\ Len(stack) < MaxDepth
  /\ stack' = Append(stack, Frame("connect"))
  /\ UNCHANGED << reader, connected, timerActive, comboIndex, telemetry_worker,
                  waveforms_worker, workers, closeObs, refused, queue, device, pool, unitVars,
                  crashed >>

\* connect_device: processEvents() returns; the rest of the slot, whose last
\* statement on success is trigger_data_update(), cut at its processEvents()
ConnectResume ==
  /\ ~crashed
  /\ stack # << >> /\ Top.kind = "connect"
  /\ \E result \in {"ok", "fail", "exc"}, closeRaises \in BOOLEAN :
        /\ closeRaises => IsConnected(Gui)
        /\ FreeReaders(IF IsConnected(Gui) THEN disconnect_device(Gui, closeRaises)
                       ELSE Gui) # {}
        /\ Commit(connect_rest(Gui, result, closeRaises))
        /\ stack' = IF result = "ok" THEN Append(Pop, Frame("trigger")) ELSE Pop
  /\ UNCHANGED << queue, device, pool, unitVars, crashed >>

\* disconnect_button.clicked / closeEvent -> disconnect_device
DisconnectDevice ==
  /\ ~crashed /\ ~DeletePending
  /\ \E closeRaises \in BOOLEAN :
        /\ closeRaises => IsConnected(Gui)
        /\ Commit(disconnect_device(Gui, closeRaises))
  /\ UNCHANGED << stack, queue, device, pool, unitVars, crashed >>

\* auto_refresh_combo.currentIndexChanged -> set_auto_refresh(index)
SetAutoRefresh ==
  /\ ~crashed /\ ~DeletePending
  /\ \E index \in 0..MaxIndex :
        /\ index # comboIndex
        /\ Commit(set_auto_refresh([Gui EXCEPT !.comboIndex = index], index))
  /\ UNCHANGED << stack, queue, device, pool, unitVars, crashed >>

WorkersUnchanged ==
  UNCHANGED << reader, connected, timerActive, comboIndex, telemetry_worker,
               waveforms_worker, workers, stack, device, pool, unitVars, crashed, closeObs, refused >>

\* data_ready of a telemetry worker is delivered: _handle_telemetry_data
HandleTelemetryData ==
  /\ ~crashed /\ queue # << >>
  /\ Head(queue).sig = "data_ready" /\ workers[Head(queue).w].cls = "telemetry"
  /\ queue' = Tail(queue)
  /\ WorkersUnchanged

\* data_ready of a waveform worker is delivered: _handle_waveforms_data
HandleWaveformsData ==
  /\ ~crashed /\ queue # << >>
  /\ Head(queue).sig = "data_ready" /\ workers[Head(queue).w].cls = "waveform"
  /\ queue' = Tail(queue)
  /\ WorkersUnchanged

\* error_occurred is delivered: _handle_worker_error
HandleWorkerError ==
  /\ ~crashed /\ queue # << >>
  /\ Head(queue).sig = "error_occurred"
  /\ queue' = Tail(queue)
  /\ WorkersUnchanged

\* self.<class>_worker.deleteLater(): the object the attribute refers to is
\* scheduled for deletion, which matters if its thread still runs
DeleteLater(m, w) ==
  [m EXCEPT !.workers = IF RunningIn(m, w) THEN [@ EXCEPT ![w].doomed = TRUE] ELSE @]

\* _cleanup_telemetry_worker: deleteLater() on the worker the attribute refers
\* to and self.telemetry_worker = None, whichever worker the signal came from
cleanup_telemetry_worker(m) ==
  [DeleteLater(m, m.telemetry_worker) EXCEPT !.telemetry_worker = 0]

\* _cleanup_waveforms_worker
cleanup_waveforms_worker(m) ==
  [DeleteLater(m, m.waveforms_worker) EXCEPT !.waveforms_worker = 0]

\* the thread object of a finished worker goes away once its last signal is delivered
Release(m, w) == [m EXCEPT !.workers = [@ EXCEPT ![w] = NoWorker]]

\* finished of a telemetry worker is delivered
CleanupTelemetryWorker ==
  /\ ~crashed /\ queue # << >>
  /\ Head(queue).sig = "finished" /\ workers[Head(queue).w].cls = "telemetry"
  /\ Commit(Release(cleanup_telemetry_worker(Gui), Head(queue).w))
  /\ queue' = Tail(queue)
  /\ UNCHANGED << stack, device, pool, unitVars, crashed >>

\* finished of a waveform worker is delivered
CleanupWaveformsWorker ==
  /\ ~crashed /\ queue # << >>
  /\ Head(queue).sig = "finished" /\ workers[Head(queue).w].cls = "waveform"
  /\ Commit(Release(cleanup_waveforms_worker(Gui), Head(queue).w))
  /\ queue' = Tail(queue)
  /\ UNCHANGED << stack, device, pool, unitVars, crashed >>

\* running workers the application no longer refers to
Orphans ==
  { w \in WorkerIds : IsRunning(w) /\ telemetry_worker # w /\ waveforms_worker # w }

\* A QThread object that is dropped (disconnect_device) or deleted
\* (_cleanup_*_worker's deleteLater on a newer worker) while its thread runs
\* may be destroyed: "QThread: Destroyed while thread is still running" aborts
\* the process, and nothing of its state is left.
DestroyedWhileRunning ==
  /\ ~crashed /\ Orphans # {}
  /\ crashed' = TRUE
  /\ reader' = 0
  /\ connected' = [r \in ReaderIds |-> FALSE]
  /\ timerActive' = FALSE
  /\ comboIndex' = 0
  /\ telemetry_worker' = 0
  /\ waveforms_worker' = 0
  /\ workers' = [w \in WorkerIds |-> NoWorker]
  /\ queue' = << >>
  /\ stack' = << >>
  /\ UNCHANGED << device, pool, unitVars, closeObs, refused >>

\* ------------------------------------------------------- the application
\* The files of the three applications
THREADED == "all_sensors_reader_pyside_threaded.py"
SYNC     == "all_sensors_reader_pyside.py"
UHF      == "uhf_monitor_pyside.py"

\* no update_data of the UHF monitor has returned
NoExcept == [raised |-> FALSE, timer |-> FALSE]

\* __init__ of the main window of application a: no reader, the timer created
\* but not started, the combo at the index initUI leaves it at
InitWindow(a, index) ==
  /\ app = a
  /\ exceptObs = NoExcept
  /\ reader = 0
  /\ connected = [r \in ReaderIds |-> FALSE]
  /\ timerActive = FALSE
  /\ comboIndex = index
  /\ telemetry_worker = 0
  /\ waveforms_worker = 0
  /\ workers = [w \in WorkerIds |-> NoWorker]
  /\ queue = << >>
  /\ stack = << >>
  /\ crashed = FALSE
  /\ closeObs = [called |-> FALSE, timer |-> FALSE, marked |-> FALSE, uncancelled |-> FALSE]
  /\ refused = FALSE

\* AllSensorsApp.__init__ of the threaded application
InitApp == InitWindow(THREADED, 0)

Init == InitApp /\ UnitIdle /\ device \in {"up", "down"} /\ pool = MaxWorkers

WorkerStep(w) ==
  \/ RunCheck(w)
  \/ NotConnectedFlag(w)
  \/ EmitError(w)
  \/ ReadEnter(w)
  \/ TelemetryBody(w)
  \/ WaveformBody(w)
  \/ ResultFlag(w)
  \/ EmitData(w)
  \/ Finish(w)

Next ==
  \/ TimerTick
  \/ ManualRefresh
  \/ TriggerResume
  \/ ConnectDevice
  \/ ConnectResume
  \/ DisconnectDevice
  \/ SetAutoRefresh
  \/ HandleTelemetryData
  \/ HandleWaveformsData
  \/ HandleWorkerError
  \/ CleanupTelemetryWorker
  \/ CleanupWaveformsWorker
  \/ DestroyedWhileRunning
  \/ \E w \in WorkerIds : WorkerStep(w)

\* The application: every slot, re-entrant dispatch inside processEvents, the
\* timer, and as many worker objects as one poll creates.
Spec == Init /\ [][Next]_vars

\* ------------------------------------ the application without threads
\* all_sensors_reader_pyside.py reads in the GUI thread: no worker objects, no
\* queued signals.  Its set_auto_refresh and the part of update_data before
\* processEvents() are statement for statement those of the threaded file.

\* a disconnect_device that leaves the timer as it is
sync_disconnect_keeps_timer(m, closeRaises) ==
  IF IsConnected(m)
  THEN [ReaderDisconnect(m, m, closeRaises) EXCEPT !.reader = 0]
  ELSE m

\* AllSensorsApp.disconnect_device: everything is under the test of a
\* connected reader
sync_disconnect_device(m, closeRaises) ==
  IF IsConnected(m)
  THEN [ReaderDisconnect(StopTimer(m), m, closeRaises) EXCEPT !.reader = 0]
  ELSE m

\* disconnect_button.clicked / closeEvent -> disconnect_device
SyncDisconnectDevice ==
  /\ \E closeRaises \in BOOLEAN :
        /\ closeRaises => IsConnected(Gui)
        /\ Commit(sync_disconnect_device(Gui, closeRaises))
  /\ UNCHANGED << stack, queue, device, pool, unitVars, crashed >>

\* connect_device: processEvents() returns; the rest of the slot, whose last
\* statement on success is update_data(), cut at its processEvents()
SyncConnectResume ==
  /\ stack # << >> /\ Top.kind = "connect"
  /\ \E result \in {"ok", "fail", "exc"}, closeRaises \in BOOLEAN :
        LET s1 == sync_disconnect_device(Gui, closeRaises)
            r  == FirstFreeReader(s1)
            s2 == [s1 EXCEPT !.reader = r, !.connected = connect(@, r, result)]
        IN  /\ closeRaises => IsConnected(Gui)
            /\ FreeReaders(s1) # {}
            /\ Commit(IF result = "ok"
                      THEN set_auto_refresh([s2 EXCEPT !.refused = FALSE], s2.comboIndex)
                      ELSE [s2 EXCEPT !.reader = 0])
            /\ stack' = IF result = "ok" THEN Append(Pop, Frame("trigger")) ELSE Pop
  /\ UNCHANGED << queue, device, pool, unitVars, crashed >>

\* update_data: processEvents() returns and the reads are made in the GUI
\* thread; they change neither the timer nor the reader (with no reader left the
\* slot ends in an AttributeError)
SyncUpdateResume ==
  /\ stack # << >> /\ Top.kind = "trigger"
  /\ stack' = Pop
  /\ UNCHANGED << reader, connected, timerActive, comboIndex, telemetry_worker,
                  waveforms_worker, workers, closeObs, refused, queue, device, pool,
                  unitVars, crashed >>

\* ------------------------------------------------------ the UHF monitor
\* uhf_monitor_pyside.py: one button connects and disconnects; self.monitor is
\* the reader.  set_refresh_rate is set_auto_refresh statement for statement,
\* and so is update_data before processEvents().

\* toggle_connection with a connected monitor: the timer is stopped, the combo
\* set to index 0 (which runs set_refresh_rate(0)), monitor.disconnect() is
\* called (it has no test of the flag) and the monitor dropped, also when
\* close() raised
uhf_disconnect(m, closeRaises) ==
  [ReaderDisconnect(set_auto_refresh([StopTimer(m) EXCEPT !.comboIndex = 0], 0),
                    m, closeRaises) EXCEPT !.reader = 0]

\* connect_btn.clicked -> toggle_connection.  Without a connected monitor a
\* new one is made and connected, and on success update_data() is called, which
\* stops at its processEvents(); otherwise the monitor is dropped again.
UhfToggleConnection ==
  /\ IF IsConnected(Gui)
     THEN /\ \E closeRaises \in BOOLEAN : Commit(uhf_disconnect(Gui, closeRaises))
          /\ UNCHANGED stack
     ELSE \E result \in {"ok", "fail", "exc"} :
            LET r == FirstFreeReader(Gui)
                s == [Gui EXCEPT !.reader = r, !.connected = connect(@, r, result)]
            IN  /\ FreeReaders(Gui) # {}
                /\ result = "ok" => Len(stack) < MaxDepth
                /\ Commit(IF result = "ok" THEN [s EXCEPT !.refused = FALSE]
                          ELSE [s EXCEPT !.reader = 0])
                /\ stack' = IF result = "ok" THEN Append(stack, Frame("toggle"))
                            ELSE stack
  /\ UNCHANGED << queue, device, pool, unitVars, crashed >>

\* an update_data whose except clause leaves the timer and the combo alone
uhf_update_keeps_timer(m, raises) == m

\* update_data after processEvents(): the reads and the redrawing.  raises
\* says that a statement of the try block raised, as the first read does when
\* the monitor was dropped meanwhile; the except clause stops an active timer
\* and sets the combo to index 0
uhf_update_rest(m, raises) ==
  IF (m.reader = 0 \/ raises) /\ m.timerActive
  THEN set_auto_refresh([StopTimer(m) EXCEPT !.comboIndex = 0], 0)
  ELSE m

\* whether update_data went through its except clause, and whether the timer
\* was active when it got there
Excepted(m, raises) == [raised |-> m.reader = 0 \/ raises, timer |-> m.timerActive]

\* update_data called by the timer or the refresh button: processEvents() returns
UhfUpdateResume ==
  /\ stack # << >> /\ Top.kind = "trigger"
  /\ \E raises \in BOOLEAN :
        /\ Commit(uhf_update_rest(Gui, raises))
        /\ exceptObs' = Excepted(Gui, raises)
  /\ stack' = Pop
  /\ UNCHANGED << queue, device, pool, decodeVars, snapVars, loop, app, crashed >>

\* toggle_connection: its update_data() returns, then
\* set_refresh_rate(auto_refresh_combo.currentIndex())
UhfToggleResume ==
  /\ stack # << >> /\ Top.kind = "toggle"
  /\ \E raises \in BOOLEAN :
        LET s == uhf_update_rest(Gui, raises)
        IN  /\ Commit(set_auto_refresh(s, s.comboIndex))
            /\ exceptObs' = Excepted(Gui, raises)
  /\ stack' = Pop
  /\ UNCHANGED << queue, device, pool, decodeVars, snapVars, loop, app, crashed >>

\* --------------------------------------------------- the three applications
InitApps ==
  /\ \/ InitWindow(THREADED, 0)
     \/ InitWindow(SYNC, 0)
     \/ InitWindow(UHF, MaxIndex)
  /\ response = << >> /\ decoded = NoDecode /\ SnapIdle /\ LoopIdle
  /\ device \in {"up", "down"} /\ pool = MaxWorkers

\* The timer, the refresh button and the combo are wired to slots with the same
\* statements in the three files; worker threads exist in the threaded file only.
NextApps ==
  \/ TimerTick
  \/ ManualRefresh
  \/ SetAutoRefresh
  \/ app # UHF /\ ConnectDevice
  \/ app = THREADED /\ TriggerResume
  \/ app = THREADED /\ ConnectResume
  \/ app = THREADED /\ DisconnectDevice
  \/ HandleTelemetryData
  \/ HandleWaveformsData
  \/ HandleWorkerError
  \/ CleanupTelemetryWorker
  \/ CleanupWaveformsWorker
  \/ DestroyedWhileRunning
  \/ \E w \in WorkerIds : WorkerStep(w)
  \/ app = SYNC /\ SyncUpdateResume
  \/ app = SYNC /\ SyncConnectResume
  \/ app = SYNC /\ SyncDisconnectDevice
  \/ app = UHF /\ UhfUpdateResume
  \/ app = UHF /\ UhfToggleConnection
  \/ app = UHF /\ UhfToggleResume

\* Any one of the three applications, chosen at start-up
SpecApps == InitApps /\ [][NextApps]_vars

\* ------------------------------------------- old workers next to new ones
\* trigger_data_update when its processEvents() finds nothing to dispatch
TriggerDirect ==
  /\ ~crashed /\ ~DeletePending /\ stack = << >>
  /\ IF ~IsConnected(Gui)
     THEN Commit(not_connected_branch(Gui))
     ELSE /\ Cardinality(FreeWorkers(Gui)) >= Needed(Gui)
          /\ Commit(start_workers(Gui))
  /\ UNCHANGED << stack, queue, device, pool, unitVars, crashed >>

\* connect_device when neither processEvents() finds anything to dispatch and
\* client.close() does not raise
ConnectDirect ==
  /\ ~crashed /\ ~DeletePending /\ stack = << >>
  /\ \E result \in {"ok", "fail", "exc"} :
        LET s == connect_rest(Gui, result, FALSE) IN
        /\ FreeReaders(IF IsConnected(Gui) THEN disconnect_device(Gui, FALSE) ELSE Gui) # {}
        /\ IF result = "ok"
           THEN /\ Cardinality(FreeWorkers(s)) >= Needed(s)
                /\ Commit(start_workers(s))
           ELSE Commit(s)
  /\ UNCHANGED << stack, queue, device, pool, unitVars, crashed >>

\* disconnect_device when client.close() does not raise
DisconnectClean ==
  /\ ~crashed /\ ~DeletePending
  /\ Commit(disconnect_device(Gui, FALSE))
  /\ UNCHANGED << stack, queue, device, pool, unitVars, crashed >>

InitRace == InitApp /\ UnitIdle /\ device = "up" /\ pool = MaxWorkers + 1

\* Without re-entrant dispatch every worker is created with a connected reader
\* and is cancelled before that reader is disconnected: run() emits no error.
RaceStep(w) ==
  \/ RunCheck(w)
  \/ NotConnectedFlag(w)
  \/ ReadEnter(w)
  \/ TelemetryBody(w)
  \/ WaveformBody(w)
  \/ ResultFlag(w)
  \/ EmitData(w)
  \/ Finish(w)

NextRace ==
  \/ TriggerDirect
  \/ ConnectDirect
  \/ DisconnectClean
  \/ HandleTelemetryData
  \/ HandleWaveformsData
  \/ CleanupTelemetryWorker
  \/ CleanupWaveformsWorker
  \/ DestroyedWhileRunning
  \/ \E w \in WorkerIds : RaceStep(w)

\* The application in manual mode with room for one worker object more than a
\* poll creates, so that a worker the application has let go of can still run
\* when the next poll starts; the slots run without re-entrant dispatch.
SpecRace == InitRace /\ [][NextRace]_vars

\* ------------------------------------------------------------- one poll
\* The application just after connect_device succeeded and its
\* trigger_data_update() started the two workers of the first poll.
InitPoll ==
  /\ reader = 1
  /\ connected = [r \in ReaderIds |-> r = 1]
  /\ timerActive = FALSE
  /\ comboIndex = 0
  /\ telemetry_worker = 1
  /\ waveforms_worker = 2
  /\ workers = [w \in WorkerIds |->
                  IF w = 1 THEN NewWorker("telemetry", 1)
                  ELSE IF w = 2 THEN NewWorker("waveform", 1) ELSE NoWorker]
  /\ queue = << >>
  /\ stack = << >>
  /\ crashed = FALSE
  /\ closeObs = [called |-> FALSE, timer |-> FALSE, marked |-> FALSE, uncancelled |-> FALSE]
  /\ refused = FALSE
  /\ app = THREADED
  /\ exceptObs = NoExcept
  /\ device = "up"
  /\ pool = MaxWorkers
  /\ UnitIdle

PollStep(w) ==
  \/ RunCheck(w)
  \/ NotConnectedFlag(w)
  \/ ReadEnter(w)
  \/ ReadCheck(w)
  \/ ReadIssue(w)
  \/ ReadComplete(w)
  \/ ChunkIssue(w)
  \/ ChunkComplete(w)
  \/ ResultFlag(w)
  \/ EmitData(w)
  \/ Finish(w)

NextPoll ==
  \/ DisconnectDevice
  \/ TriggerDirect
  \/ HandleTelemetryData
  \/ HandleWaveformsData
  \/ CleanupTelemetryWorker
  \/ CleanupWaveformsWorker
  \/ DestroyedWhileRunning
  \/ \E w \in WorkerIds : PollStep(w)

\* Polls transaction by transaction: the two workers of a poll run their reads
\* against a device that answers, while the GUI thread may disconnect, take a
\* further trigger, and deliver the workers' signals.
SpecPoll == InitPoll /\ [][NextPoll]_vars

\* Every started thread is scheduled again and again, and each of its
\* transport calls returns; the event loop delivers the signals queued to it.
Fairness ==
  /\ \A w \in WorkerIds : WF_vars(PollStep(w))
  /\ WF_vars(HandleTelemetryData \/ HandleWaveformsData
               \/ CleanupTelemetryWorker \/ CleanupWaveformsWorker)

\* Polls transaction by transaction, with threads that make progress
SpecPollLive == SpecPoll /\ Fairness

\* ------------------------------------------------------ one reader call
\* The application while one worker of a poll is still at its start and the
\* worker of the other class has finished and is cleaned up.
InitReads ==
  /\ reader = 1
  /\ connected = [r \in ReaderIds |-> r = 1]
  /\ timerActive = FALSE
  /\ comboIndex = 0
  /\ \E cls \in {"telemetry", "waveform"} :
        /\ telemetry_worker = IF cls = "telemetry" THEN 1 ELSE 0
        /\ waveforms_worker = IF cls = "waveform" THEN 1 ELSE 0
        /\ workers = [w \in WorkerIds |-> IF w = 1 THEN NewWorker(cls, 1) ELSE NoWorker]
  /\ queue = << >>
  /\ stack = << >>
  /\ crashed = FALSE
  /\ closeObs = [called |-> FALSE, timer |-> FALSE, marked |-> FALSE, uncancelled |-> FALSE]
  /\ refused = FALSE
  /\ app = THREADED
  /\ exceptObs = NoExcept
  /\ device = "flaky"
  /\ pool = MaxWorkers
  /\ UnitIdle

NextReads ==
  \/ DisconnectDevice
  \/ HandleTelemetryData
  \/ HandleWaveformsData
  \/ CleanupTelemetryWorker
  \/ CleanupWaveformsWorker
  \/ DestroyedWhileRunning
  \/ \E w \in WorkerIds : PollStep(w)

\* One read_telemetry_data or read_waveform_data call, transaction by
\* transaction, against a device that may fail any of them, while the GUI
\* thread may disconnect and deliver the worker's signals.
SpecReads == InitReads /\ [][NextReads]_vars

\* ------------------------------------------------------ the reader's API
\* reader objects somebody refers to
ReadersInUse ==
  ({reader} \cup { workers[w].reader : w \in WorkerIds }) \ {0}

\* reader.connect() is called on a reader in use, connected or not
ApiConnect ==
  /\ ~crashed
  /\ \E r \in ReadersInUse, result \in {"ok", "fail", "exc"} :
        connected' = connect(connected, r, result)
  /\ UNCHANGED << reader, timerActive, comboIndex, telemetry_worker, waveforms_worker,
                  workers, queue, stack, device, pool, unitVars, crashed, closeObs, refused >>

ApiStep(w) ==
  \/ PollStep(w)
  \/ EmitError(w)

NextApi ==
  \/ ApiConnect
  \/ DisconnectDevice
  \/ HandleTelemetryData
  \/ HandleWaveformsData
  \/ HandleWorkerError
  \/ CleanupTelemetryWorker
  \/ CleanupWaveformsWorker
  \/ DestroyedWhileRunning
  \/ \E w \in WorkerIds : ApiStep(w)

\* One AllSensorsReader used through its public methods: a worker runs a reader
\* call on it while connect() and disconnect() are called on it in any order.
SpecApi == InitReads /\ [][NextApi]_vars

\* ------------------------------------------------------- one float read
\* the register values tried: the ends of the range, the byte and sign
\* boundaries, and the high word of 1.0
RegisterSamples == {0, 1, 255, 256, 16256, 32767, 32768, 65535}

\* response.registers of a read of two registers, as a device may send it:
\* with the two registers asked for, or with fewer or more
Responses == UNION { [1..n -> RegisterSamples] : n \in 0..MaxRegisters }

\* the state of the application
appVars == << reader, connected, timerActive, comboIndex, telemetry_worker,
              waveforms_worker, workers, queue, stack, device, pool, crashed,
              closeObs, refused, app, exceptObs >>

InitDecode ==
  /\ InitApp /\ device = "up" /\ pool = MaxWorkers
  /\ response \in Responses
  /\ decoded = NoDecode
  /\ SnapIdle /\ LoopIdle

\* AllSensorsReader.read_float from the response on
ReadFloat ==
  /\ decoded.by = "none"
  /\ decoded' = [by |-> "AllSensorsReader", word |-> << >>,
                 value |-> ReadFloatResult(response)]
  /\ UNCHANGED << appVars, snapVars, loop, response >>

\* UHFMonitor.read_float from the response on
UhfReadFloat ==
  /\ decoded.by = "none"
  /\ decoded' = [by |-> "UHFMonitor",
                 word |-> IF Len(response) < 2 THEN << >> ELSE Combined(response),
                 value |-> UhfReadFloatResult(response)]
  /\ UNCHANGED << appVars, snapVars, loop, response >>

NextDecode ==
  \/ ReadFloat
  \/ UhfReadFloat

\* read_float of either reader class applied to one response
SpecDecode == InitDecode /\ [][NextDecode]_vars

\* ------------------------------------------------- snapshots as objects
\* Reader calls followed object by object: the dict a call builds and the
\* lists it puts in it are objects of the heap, named by references; the
\* data_ready signal carries the reference of the dict to the handler.

\* one object for every poll, whatever is in use
ReusedObject(h) == 1

\* the object a  {}  or  []  expression creates: one not in use so far
FreshObject(h) ==
  CHOOSE o \in ObjIds : h[o].kind = "free" /\ \A q \in 1..(o - 1) : h[q].kind # "free"

\* x = {}   /   x = []
New(h, kind) == [h EXCEPT ![FreshObject(h)] = [kind |-> kind, items |-> << >>]]

\* d[name] = value for a name not yet in d
Store(h, d, name, value) ==
  [h EXCEPT ![d].items = Append(@, [name |-> name, value |-> value])]

\* l.extend(values)
Extend(h, l, values) == [h EXCEPT ![l].items = @ \o values]

\* what a handler reading the dict at reference d sees: the names with their
\* values, a list by its elements
Deep(h, d) ==
  [k \in 1..Len(h[d].items) |->
     [name |-> h[d].items[k].name,
      value |-> IF h[d].kind = "waveforms" THEN h[h[d].items[k].value].items
                ELSE h[d].items[k].value]]

\* the list objects a waveform dict refers to
ListsOf(h, d) ==
  IF h[d].kind = "waveforms" THEN { h[d].items[k].value : k \in 1..Len(h[d].items) }
  ELSE {}

\* the worker calls read_telemetry_data (data = {}) or read_waveform_data
\* (waveforms = {}, and waveform_data = [] of the first channel)
SnapCall ==
  /\ frame.wk.pc = "free" /\ frame.polls < MaxPolls
  /\ \E cls \in {"telemetry", "waveform"} :
       LET d  == FreshObject(heap)
           h1 == New(heap, IF cls = "telemetry" THEN "telemetry" ELSE "waveforms")
       IN  IF cls = "telemetry"
           THEN /\ heap' = h1
                /\ frame' = [wk |-> [NewWorker(cls, 1) EXCEPT !.idx = 1, !.pc = "read_check"],
                             ref |-> d, lref |-> 0, polls |-> frame.polls + 1]
           ELSE /\ heap' = New(h1, "list")
                /\ frame' = [wk |-> StartChannel(NewWorker(cls, 1), 1),
                             ref |-> d, lref |-> FreshObject(h1),
                             polls |-> frame.polls + 1]
  /\ UNCHANGED << appVars, decodeVars, loop, mail, held >>

\* read_telemetry_data: one read_short / read_float and  data[name] = value.
\* An exception gives the same None as an error response.
SnapRead ==
  /\ frame.wk.pc = "read_check"
  /\ \E o \in {"ok", "err"} :
       LET wk2 == CompleteRead(IssueRead(frame.wk), o)
           e   == wk2.data[Len(wk2.data)]
       IN  /\ heap' = Store(heap, frame.ref, e.name, e.value)
           /\ frame' = [frame EXCEPT !.wk = wk2]
  /\ UNCHANGED << appVars, decodeVars, loop, mail, held >>

\* read_waveform_data: one chunk.  A response extends waveform_data; the end
\* of the channel stores that list under the channel's name; a failure stores
\* a new empty list; the next channel begins with waveform_data = [].
SnapChunk ==
  /\ frame.wk.pc = "chunk_issue"
  /\ \E o \in Outcomes("flaky") :
       LET wk1  == IssueChunk(frame.wk)
           wk2  == CompleteChunk(wk1, o)
           name == WaveformInfo[wk1.idx].name
           more == wk2.pc = "chunk_issue"
           h1   == IF o = "ok"
                   THEN Extend(heap, frame.lref, Registers(wk1.address, wk1.count))
                   ELSE heap
           same == more /\ wk2.idx = wk1.idx
           h2   == IF same THEN h1
                   ELSE IF o = "ok" THEN Store(h1, frame.ref, name, frame.lref)
                   ELSE Store(New(h1, "list"), frame.ref, name, FreshObject(h1))
           next == more /\ ~same
       IN  /\ heap' = IF next THEN New(h2, "list") ELSE h2
           /\ frame' = [frame EXCEPT !.wk = wk2,
                                     !.lref = IF next THEN FreshObject(h2) ELSE @]
  /\ UNCHANGED << appVars, decodeVars, loop, mail, held >>

\* run(): self.data_ready.emit(data), and run() returns
SnapEmit ==
  /\ frame.wk.pc = "result_flag"
  /\ mail' = Append(mail, frame.ref)
  /\ frame' = [frame EXCEPT !.wk = [pc |-> "free"], !.ref = 0, !.lref = 0]
  /\ UNCHANGED << appVars, decodeVars, loop, heap, held >>

\* _handle_telemetry_data / _handle_waveforms_data is given the dict and reads it
SnapDeliver ==
  /\ mail # << >>
  /\ held' = Append(held, [ref |-> Head(mail), seen |-> Deep(heap, Head(mail))])
  /\ mail' = Tail(mail)
  /\ UNCHANGED << appVars, decodeVars, loop, heap, frame >>

InitSnap ==
  /\ InitApp /\ device = "flaky" /\ pool = MaxWorkers
  /\ UnitIdle

NextSnap ==
  \/ SnapCall
  \/ SnapRead
  \/ SnapChunk
  \/ SnapEmit
  \/ SnapDeliver

\* Successive polls of one reader and the delivery of their snapshots
SpecSnap == InitSnap /\ [][NextSnap]_vars

\* ------------------------------------------------------ one chunk loop
\* a read_uhf_waveform that starts at the base of the TEV channel
UhfStartAtTev ==
  [pc |-> "loop", waveform_data |-> << >>, registers_to_read |-> CHANNEL_WIDTH,
   start_address |-> TEV_BASE, txlog |-> << >>, ret |-> << >>]

\* UHFMonitor.read_uhf_waveform of a connected monitor, at the top of its
\* while loop
UhfStart ==
  [pc |-> "loop", waveform_data |-> << >>, registers_to_read |-> CHANNEL_WIDTH,
   start_address |-> UHF_BASE, txlog |-> << >>, ret |-> << >>]

\* read_uhf_waveform: one turn of the while loop, the transaction answered
\* with outcome o; max_read_count is the local constant 125.  An error response
\* and an exception both end the call with [].
uhf_chunk(u, o) ==
  LET count == Min(u.registers_to_read, MAX_READ_COUNT)
      t     == Append(u.txlog, [address |-> u.start_address, count |-> count,
                                outcome |-> o])
      data  == u.waveform_data \o Registers(u.start_address, count)
  IN  IF o # "ok"
      THEN [u EXCEPT !.txlog = t, !.pc = "returned", !.ret = << >>]
      ELSE IF u.registers_to_read - count > 0
      THEN [u EXCEPT !.txlog = t, !.waveform_data = data,
                     !.registers_to_read = @ - count, !.start_address = @ + count]
      ELSE [u EXCEPT !.txlog = t, !.waveform_data = data,
                     !.registers_to_read = @ - count, !.start_address = @ + count,
                     !.pc = "returned", !.ret = data]

\* read_waveform_data(max_read_count) at the top of the while loop of channel
\* k, the channels before it stored; for the UHF channel and the default
\* max_read_count a read_uhf_waveform call is run on the same responses
InitChunks ==
  /\ InitApp /\ device = "flaky" /\ pool = MaxWorkers
  /\ response = << >> /\ decoded = NoDecode /\ SnapIdle
  /\ \E k \in 1..Len(WaveformInfo), n \in 1..MaxReadCount :
        loop = [wk |-> [StartChannel(NewWorker("waveform", 1), k) EXCEPT
                          !.data = [j \in 1..(k - 1) |->
                                      [name |-> WaveformInfo[j].name, value |-> << >>]]],
                k |-> k, max_read_count |-> n,
                uhf |-> IF WaveformInfo[k].start_address = UHF_BASE /\ n = MAX_READ_COUNT
                        THEN UhfStart ELSE UhfFree]

\* one turn of the while loop: the transaction is sent and completes; the
\* read_uhf_waveform call run alongside, if it has not returned, gets the same
\* outcome for its transaction
LoopChunk ==
  /\ loop.wk.pc = "chunk_issue" /\ loop.wk.idx = loop.k
  /\ \E o \in Outcomes(device) :
        loop' = [loop EXCEPT
                   !.wk = CompleteChunk(IssueChunkWith(loop.wk, loop.max_read_count), o),
                   !.uhf = IF @.pc = "loop" THEN uhf_chunk(@, o) ELSE @]
  /\ UNCHANGED << appVars, decodeVars, snapVars >>

NextChunks == LoopChunk

\* The chunk loop of one channel for every max_read_count
SpecChunks == InitChunks /\ [][NextChunks]_vars

\* ---------------------------------------------------------------- claims
\* Worker w is executing reads: inside its reader call with a
\* read_input_registers call in flight or about to be made.
ExecutingReads(w) ==
  \/ workers[w].pc \in {"read_issue", "read_wait", "chunk_issue", "chunk_wait"}
  \/ workers[w].pc = "read_check" /\ connected[workers[w].reader]

ReadingOf(cls) == { w \in WorkerIds : workers[w].cls = cls /\ ExecutingReads(w) }

\* C1: for each data class at most one worker of that class is executing reads
\* at any time, whatever connects, disconnects, triggers and completions came
\* before.
C1_SingleFlightPerClass ==
  \A cls \in {"telemetry", "waveform"} : Cardinality(ReadingOf(cls)) <= 1

\* the step creates a worker object of class cls
Creates(cls) ==
  \E v \in WorkerIds : /\ workers[v].pc = "free"
                       /\ workers'[v].pc = "start"
                       /\ workers'[v].cls = cls

\* C2: a poll trigger that arrives while a worker of a class is running creates
\* no second worker of that class.
C2_TriggerWhileRunningDropped ==
  [][ TriggerDirect =>
        \A cls \in {"telemetry", "waveform"} :
           (\E w \in WorkerIds : workers[w].cls = cls /\ IsRunning(w)) => ~Creates(cls) ]_vars

\* C3: the workers sharing a reader never have two read_input_registers calls
\* in flight on its client at the same time.
C3_OneTransactionInFlight ==
  \A r \in ReaderIds :
     Cardinality({ w \in WorkerIds : InFlight(w) /\ workers[w].reader = r }) <= 1

\* C4: no read_input_registers call is issued while the reader's connected
\* flag is false.
C4_NoReadWhileDisconnected ==
  [][ \A w \in WorkerIds :
         (~InFlight(w) /\ workers'[w].pc \in {"read_wait", "chunk_wait"})
            => connected[workers[w].reader] ]_vars

\* C5: once disconnect_device has called stop() on a running worker, no
\* data_ready and no error_occurred of that worker is delivered to
\* _handle_telemetry_data, _handle_waveforms_data or _handle_worker_error.
C5_NoDeliveryAfterCancel ==
  [][ (HandleTelemetryData \/ HandleWaveformsData \/ HandleWorkerError)
         => workers[Head(queue).w].is_running ]_vars

\* C6: when disconnect_device closes the connection (reader.disconnect), the
\* timer is stopped, no worker the application referred to is left running
\* without stop() having been called on it, and both classes are reset to Idle.
C6_CloseComesLast ==
  closeObs.called => ~closeObs.timer /\ ~closeObs.marked /\ ~closeObs.uncancelled

\* C6 happens: the connection was closed while a worker was running, which
\* disconnect_device had cancelled and let go of before
C6_Witness ==
  /\ closeObs.called
  /\ \E w \in WorkerIds : IsRunning(w) /\ ~workers[w].is_running
  /\ telemetry_worker = 0 /\ waveforms_worker = 0

\* C7: a poll trigger issued while there is no reader or the reader is not
\* connected starts no worker and leaves no poll pending, and leaves the timer
\* stopped; the timer is active only while a connected reader exists, so it
\* stays stopped until a connect.
C7_TriggerFailsWhenNotConnected ==
  /\ [](timerActive => IsConnected(Gui))
  /\ [][ (TriggerDataUpdate /\ ~IsConnected(Gui))
            => (workers' = workers /\ stack' = stack /\ ~timerActive') ]_vars

\* C7 happens: a trigger was refused after the device had been disconnected
C7_Witness ==
  refused /\ closeObs.called /\ ~IsConnected(Gui) /\ ~timerActive

\* the last transaction of worker w raised
LastRaised(w) ==
  LET log == workers[w].txlog IN Len(log) > 0 /\ log[Len(log)].outcome = "exc"

\* C8: when the connection goes away while a waveform poll is in progress
\* (the reader is disconnected, or the transport raises), the worker goes on to
\* emit error_occurred for the waveform class.
C8_ErrorOnDisconnectMidPoll ==
  [][ \A w \in WorkerIds :
         ( /\ workers[w].cls = "waveform"
           /\ workers[w].pc = "result_flag"
           /\ workers[w].ret = "dict"
           /\ (~connected[workers[w].reader] \/ LastRaised(w))
           /\ workers'[w].pc # "result_flag"
           /\ ~crashed' )
         => workers'[w].pc = "emit_error" ]_vars

\* the transactions of worker w for telemetry read k
TransactionsFor(w, k) ==
  { i \in 1..Len(workers[w].txlog) :
       workers[w].txlog[i].address = TelemetrySpecs[k].address }

\* a telemetry worker whose read_telemetry_data has returned a snapshot
SnapshotReturned(w) ==
  /\ workers[w].cls = "telemetry"
  /\ workers[w].pc = "result_flag"
  /\ workers[w].ret = "dict"

\* C9: in the snapshot read_telemetry_data returns, every one of the seven
\* reads has its entry, in order; a read whose transaction failed is None, a
\* read whose transaction succeeded holds the decoded value, and as long as the
\* reader is connected every read was sent whatever the earlier ones did.
C9_ReadsIndependent ==
  \A w \in WorkerIds :
     SnapshotReturned(w) =>
        LET wk == workers[w] IN
        /\ Len(wk.data) = Len(TelemetrySpecs)
        /\ connected[wk.reader] => Len(wk.txlog) = Len(TelemetrySpecs)
        /\ \A k \in 1..Len(TelemetrySpecs) :
              /\ wk.data[k].name = TelemetrySpecs[k].name
              /\ Cardinality(TransactionsFor(w, k)) <= 1
              /\ TransactionsFor(w, k) = {} => wk.data[k].value = NoneValue
              /\ \A i \in TransactionsFor(w, k) :
                    wk.data[k].value =
                       IF wk.txlog[i].outcome = "ok"
                       THEN ScalarValue(TelemetrySpecs[k].kind, TelemetrySpecs[k].address,
                                        wk.txlog[i].count, "ok")
                       ELSE NoneValue

\* C9 happens: a snapshot in which a read failed and a later read succeeded
C9_Witness ==
  \E w \in WorkerIds :
     /\ SnapshotReturned(w)
     /\ \E i, j \in 1..Len(workers[w].txlog) :
           /\ i < j
           /\ workers[w].txlog[i].outcome # "ok"
           /\ workers[w].txlog[j].outcome = "ok"
           /\ workers[w].data[j].value # NoneValue

\* C10: read_telemetry_data returns None only when the reader was disconnected
\* before the first read (nothing was read); otherwise it returns a snapshot
\* with exactly the seven names, each a number or None.
C10_NoneOnlyBeforeFirstRead ==
  \A w \in WorkerIds :
     (workers[w].cls = "telemetry" /\ workers[w].pc = "result_flag") =>
        LET wk == workers[w] IN
        /\ wk.ret \in {"None", "dict"}
        /\ wk.ret = "None" =>
              wk.data = << >> /\ wk.txlog = << >> /\ ~connected[wk.reader]
        /\ wk.ret = "dict" =>
              /\ Len(wk.data) = Cardinality(TelemetryNames)
              /\ Keys(wk.data) = TelemetryNames
              /\ \A k \in 1..Len(wk.data) : wk.data[k].value.t \in {"None", "int", "float"}

\* C10 happens: the reader was disconnected in the middle of the seven reads
\* and the call still returned a snapshot
C10_Witness ==
  \E w \in WorkerIds :
     /\ SnapshotReturned(w)
     /\ ~connected[workers[w].reader]
     /\ Len(workers[w].txlog) > 0
     /\ Len(workers[w].txlog) < Len(TelemetrySpecs)

\* the transactions worker w has issued, as (address, count) pairs
TxPairs(w) ==
  [i \in 1..Len(workers[w].txlog) |->
     << workers[w].txlog[i].address, workers[w].txlog[i].count >>]

IsPrefix(s, t) == Len(s) <= Len(t) /\ \A i \in 1..Len(s) : s[i] = t[i]

\* counter, the three mV shorts, the three dB floats
ShortsFirstOrder ==
  << <<100, 1>>, <<109, 1>>, <<110, 1>>, <<111, 1>>, <<102, 2>>, <<104, 2>>, <<106, 2>> >>

\* counter, the three dB floats, the three mV shorts
FloatsFirstOrder ==
  << <<100, 1>>, <<102, 2>>, <<104, 2>>, <<106, 2>>, <<109, 1>>, <<110, 1>>, <<111, 1>> >>

\* the transactions of every telemetry poll follow the order t, all of them
\* once the snapshot is returned with the reader still connected
PollFollows(t) ==
  \A w \in WorkerIds :
     workers[w].cls = "telemetry" =>
        /\ IsPrefix(TxPairs(w), t)
        /\ (SnapshotReturned(w) /\ connected[workers[w].reader]) => TxPairs(w) = t

\* C11 (as amended): one telemetry poll issues one transaction per value,
\* count 1 for a short and 2 for a float, in the order counter (100), the
\* three mV shorts (109, 110, 111), the three dB floats (102, 104, 106).
C11_TransactionOrder == PollFollows(ShortsFirstOrder)

\* C11 (as stated): ... in the order counter (100), the three dB floats
\* (102, 104, 106), the three mV shorts (109, 110, 111).
C11_OrderAsStated == PollFollows(FloatsFirstOrder)

\* C11 happens: a telemetry poll has issued all its seven transactions
C11_Witness ==
  \E w \in WorkerIds : SnapshotReturned(w) /\ Len(workers[w].txlog) = Len(TelemetrySpecs)

\* a waveform worker whose read_waveform_data has returned a dict
WaveformsReturned(w) ==
  /\ workers[w].cls = "waveform"
  /\ workers[w].pc = "result_flag"
  /\ workers[w].ret = "dict"

\* no transaction of worker w has failed so far
AllOk(w) == \A i \in 1..Len(workers[w].txlog) : workers[w].txlog[i].outcome = "ok"

\* 125 registers at the base and 3 at base+125, for the three channels
TwoChunkPlan ==
  << <<2000, 125>>, <<2125, 3>>, <<2128, 125>>, <<2253, 3>>, <<2256, 125>>, <<2381, 3>> >>

\* the 128 registers of a channel from its base on, in address order
ChannelImage(base) == [i \in 1..128 |-> RegAt(base + i - 1)]

\* C12: with at most 125 registers per transaction and no failure, each
\* 128-register channel is read by two transactions, 125 registers at the base
\* and 3 at base+125, and its buffer is the first response followed by the
\* second.
C12_TwoChunksPerChannel ==
  \A w \in WorkerIds :
     (workers[w].cls = "waveform" /\ AllOk(w)) =>
        /\ IsPrefix(TxPairs(w), TwoChunkPlan)
        /\ WaveformsReturned(w) =>
              /\ TxPairs(w) = TwoChunkPlan
              /\ Len(workers[w].data) = 3
              /\ workers[w].data[1].value = ChannelImage(2000)
              /\ workers[w].data[2].value = ChannelImage(2128)
              /\ workers[w].data[3].value = ChannelImage(2256)

\* C12 happens: a waveform poll without failure has returned
C12_Witness ==
  \E w \in WorkerIds :
     WaveformsReturned(w) /\ AllOk(w) /\ Len(workers[w].txlog) = Len(TwoChunkPlan)

\* the transactions of worker w that belong to channel k
ChannelTransactions(w, k) ==
  { i \in 1..Len(workers[w].txlog) :
       /\ workers[w].txlog[i].address >= WaveformInfo[k].start_address
       /\ workers[w].txlog[i].address <
             WaveformInfo[k].start_address + WaveformInfo[k].registers_to_read }

\* a transaction of channel k failed
ChannelFailed(w, k) ==
  \E i \in ChannelTransactions(w, k) : workers[w].txlog[i].outcome # "ok"

\* C13: every channel buffer in the dict read_waveform_data builds is empty or
\* holds the full 128 samples, and it is empty whenever a chunk of the channel
\* failed, whatever was read of the channel before.
C13_FullOrEmpty ==
  \A w \in WorkerIds :
     workers[w].cls = "waveform" =>
        \A k \in 1..Len(workers[w].data) :
           /\ Len(workers[w].data[k].value) \in {0, 128}
           /\ ChannelFailed(w, k) => workers[w].data[k].value = << >>

\* C13 happens: the first chunk of a channel was read, the second failed, and
\* the channel is empty in the returned dict
C13_Witness ==
  \E w \in WorkerIds :
     /\ WaveformsReturned(w)
     /\ Len(workers[w].txlog) >= 2
     /\ workers[w].txlog[1].outcome = "ok"
     /\ workers[w].txlog[2].address = 2125
     /\ workers[w].txlog[2].outcome = "err"
     /\ workers[w].data[1].value = << >>

\* the dict of worker w maps the name of channel k to a full buffer
HasFullBuffer(w, k) ==
  \E j \in 1..Len(workers[w].data) :
     /\ workers[w].data[j].name = WaveformInfo[k].name
     /\ Len(workers[w].data[j].value) = 128

\* C14: a failure while reading one channel does not abort the poll: when
\* read_waveform_data returns, every channel has been read (a transaction was
\* issued for it) and every channel none of whose chunks failed has its
\* 128-sample buffer in the dict.
C14_FailureDoesNotAbortPoll ==
  \A w \in WorkerIds :
     WaveformsReturned(w) =>
        \A k \in 1..Len(WaveformInfo) :
           /\ ChannelTransactions(w, k) # {}
           /\ ~ChannelFailed(w, k) => HasFullBuffer(w, k)

\* C15: every dict read_waveform_data returns while connected has the three
\* channel names, each mapped to a full or an empty buffer, whatever error
\* responses and exceptions the transport produced.
C15_AllChannelsPresent ==
  \A w \in WorkerIds :
     WaveformsReturned(w) =>
        /\ Keys(workers[w].data) = WaveformNames
        /\ \A j \in 1..Len(workers[w].data) : Len(workers[w].data[j].value) \in {0, 128}

\* C16: a channel whose read failed in this poll reaches the subscriber in a
\* form that differs from a channel not read yet: what _handle_waveforms_data
\* is given for a failed channel is not what the display holds before any read.
C16_FailedDistinctFromUnread ==
  \A w \in WorkerIds :
     (workers[w].cls = "waveform" /\ workers[w].pc = "emit_data") =>
        \A k \in 1..Len(WaveformInfo) :
           ChannelFailed(w, k) =>
              ShownFor(workers[w].data, WaveformInfo[k].name)
                 # ShownBeforeRead(WaveformInfo[k].name)

\* C17: connect() on a reader whose connected flag is true returns true and
\* leaves the connection state as it is.
C17_ConnectIdempotent ==
  [][ \A r \in ReaderIds :
         (ApiConnect /\ connected[r]) => connected'[r] ]_vars

\* the worker object w is created and started for class cls by this step
StartedFor(cls, w) ==
  /\ w # 0
  /\ workers[w].pc = "free"
  /\ workers'[w].pc = "start"
  /\ workers'[w].cls = cls
  /\ workers'[w].is_running

\* C18: a trigger that passes the connectivity test starts a worker for each
\* class that is idle, whatever the state of the other class.
C18_TriggerStartsIdleClass ==
  [][ TriggerResume =>
        /\ TelemetryIdle(Gui) => StartedFor("telemetry", telemetry_worker')
        /\ WaveformsIdle(Gui) => StartedFor("waveform", waveforms_worker') ]_vars

\* a trigger has started a telemetry worker, which is still at the top of run(),
\* while the waveform worker is past it
C18_Witness ==
  /\ telemetry_worker # 0 /\ workers[telemetry_worker].pc = "start"
  /\ waveforms_worker # 0
  /\ workers[waveforms_worker].pc \notin {"free", "done", "start"}

\* worker w emits data_ready or error_occurred in this step
Emits(w) ==
  workers[w].pc \in {"emit_data", "emit_error"} /\ workers'[w].pc = "return"

\* C19: a run on which stop() was not called has emitted exactly one of
\* data_ready and error_occurred when run() returns, and its class is idle
\* once the thread has finished; a run on which stop() was called emits
\* nothing from then on.
C19_OneNotificationUnlessCancelled ==
  /\ [](\A w \in WorkerIds :
           /\ (workers[w].pc = "return" /\ workers[w].is_running)
                 => workers[w].emitted \in {"data", "error"}
           /\ workers[w].pc = "done" => ~IsRunning(w))
  /\ [][ \A w \in WorkerIds : Emits(w) => workers[w].is_running ]_vars

\* the transaction worker w had on the wire completes in this step by raising
RaisedIn(w) ==
  /\ InFlight(w)
  /\ Len(workers'[w].txlog) = Len(workers[w].txlog) + 1
  /\ workers'[w].txlog[Len(workers'[w].txlog)].outcome = "exc"

\* the value the reader call stored last
LastStored(wk) == wk.data[Len(wk.data)]

\* C20: when read_input_registers raises, the reader call goes on inside the
\* worker: read_short / read_float give None, which read_telemetry_data stores
\* under the name of that read before it goes to the next read or returns its
\* snapshot; read_waveform_data stores an empty buffer under the name of that
\* channel and returns its snapshot.
C20_FaultsConverted ==
  [][ \A w \in WorkerIds :
         RaisedIn(w) =>
            LET wk == workers[w]
                nx == workers'[w]
            IN  /\ Len(nx.data) = Len(wk.data) + 1
                /\ nx.pc = "result_flag" => nx.ret = "dict"
                /\ IF wk.cls = "telemetry"
                   THEN /\ LastStored(nx) = [name |-> TelemetrySpecs[wk.idx].name,
                                             value |-> NoneValue]
                        /\ nx.pc = IF wk.idx < Len(TelemetrySpecs) THEN "read_check"
                                   ELSE "result_flag"
                   ELSE /\ LastStored(nx) = [name |-> WaveformInfo[wk.idx].name,
                                             value |-> << >>]
                        /\ nx.pc = "result_flag" ]_vars

\* C20 happens: a reader call returned its snapshot although its last
\* transaction raised
C20_Witness ==
  \E w \in WorkerIds :
     /\ workers[w].pc = "result_flag"
     /\ workers[w].ret = "dict"
     /\ workers[w].txlog # << >>
     /\ workers[w].txlog[Len(workers[w].txlog)].outcome = "exc"

\* IEEE-754 single: the fields of a bit pattern
SignBit(f)      == f.v[1] \div 32768
Exponent(f)     == (f.v[1] \div 128) % 256
MantissaHigh(f) == f.v[1] % 128
MantissaLow(f)  == f.v[2]

\* the float 1.0: sign 0, biased exponent 127, mantissa 0
IsOne(f) ==
  f.t = "float" /\ SignBit(f) = 0 /\ Exponent(f) = 127
    /\ MantissaHigh(f) = 0 /\ MantissaLow(f) = 0

\* C21: read_float of either reader class, given the two registers (r0, r1),
\* returns the float whose bit pattern is r1 * 2^16 + r0 (high half r1, low
\* half r0); the registers 0x0000, 0x3F80 give 1.0.
C21_LowRegisterFirst ==
  (decoded.by # "none" /\ Len(response) = 2) =>
     /\ decoded.value = [t |-> "float", v |-> << response[2], response[1] >>]
     /\ response = << 0, 16256 >> => IsOne(decoded.value)

\* C21 happens: AllSensorsReader.read_float has decoded the registers of 1.0
C21_Witness ==
  decoded.by = "AllSensorsReader" /\ response = << 0, 16256 >> /\ IsOne(decoded.value)

\* the companion encoder: a 32-bit word split into its registers in device
\* word order,  << word & 0xFFFF, word >> 16 >>
SplitWords(c) == << c[2], c[1] >>

\* C22: for every pair of registers UHFMonitor.read_float is given, the word
\* it combines, split into (low word, high word), is the pair again, and the
\* float returned has the bit pattern of that word.
C22_RoundTrip ==
  (decoded.by = "UHFMonitor" /\ Len(response) = 2) =>
     /\ SplitWords(decoded.word) = response
     /\ decoded.value.t = "float"
     /\ SplitWords(decoded.value.v) = response

\* C22 happens: a pair with all bits set in the low register and the top bit
\* in the high register went through the decoder
C22_Witness ==
  /\ decoded.by = "UHFMonitor"
  /\ response = << 65535, 32768 >>
  /\ decoded.word = << 32768, 65535 >>

\* C23: a response to a float read that does not carry exactly two registers
\* is reported as a contract violation: read_float returns neither None, the
\* result of a failed read, nor a float.
C23_WrongCountReported ==
  (decoded.by # "none" /\ Len(response) # 2) =>
     decoded.value.t \notin {"None", "float"}

\* C24: every snapshot a handler was given still reads as it did when it was
\* delivered, and the snapshots delivered are distinct dict objects that share
\* no channel buffer.
C24_DeliveredNeverChanged ==
  /\ \A i \in 1..Len(held) : Deep(heap, held[i].ref) = held[i].seen
  /\ \A i, j \in 1..Len(held) :
        i # j => /\ held[i].ref # held[j].ref
                 /\ ListsOf(heap, held[i].ref) \cap ListsOf(heap, held[j].ref) = {}

\* C24 happens: a snapshot was delivered and a later poll of the same class
\* has stored values in its own dict
C24_Witness ==
  /\ held # << >>
  /\ frame.ref # 0
  /\ heap[frame.ref].kind = heap[held[1].ref].kind
  /\ heap[frame.ref].items # << >>

\* C25: the connected flag of a reader turns true only in connect_device, the
\* slot of the connect button: no timer tick, poll, worker step, signal
\* delivery or disconnect connects a reader.
C25_ConnectOnlyOnUserAction ==
  [][ (\E r \in ReaderIds : ~connected[r] /\ connected'[r]) => ConnectResume ]_vars

\* C25 happens: the connection was closed, a later poll trigger found no
\* connected reader, and no reader is connected
C25_Witness ==
  /\ closeObs.called
  /\ refused
  /\ \A r \in ReaderIds : ~connected[r]

\* C26: a worker thread that was started finishes, with the process alive:
\* its class is idle again and a later trigger can start a new worker.
C26_PollsFinish ==
  \A w \in WorkerIds : IsRunning(w) ~> (~IsRunning(w) /\ ~crashed)

\* the channel, by its position in waveform_info, that transaction i of worker
\* w addresses
ChannelOfTx(w, i) == CHOOSE k \in 1..Len(WaveformInfo) : i \in ChannelTransactions(w, k)

\* C27: the transactions of a read_waveform_data call address the channels in
\* the order TEV, ultrasonic, UHF: the first one is at the TEV base, no
\* transaction of a channel follows one of a later channel, and the first
\* transaction of each channel is at the channel's base.
C27_ChannelsInDeclaredOrder ==
  \A w \in WorkerIds :
     workers[w].cls = "waveform" =>
        LET t == workers[w].txlog IN
        /\ \A i \in 1..Len(t) : \E k \in 1..Len(WaveformInfo) : i \in ChannelTransactions(w, k)
        /\ t # << >> => t[1].address = TEV_BASE
        /\ \A i, j \in 1..Len(t) : i < j => ChannelOfTx(w, i) <= ChannelOfTx(w, j)
        /\ \A i \in 1..Len(t) :
              (i = 1 \/ ChannelOfTx(w, i - 1) # ChannelOfTx(w, i))
                 => t[i].address = WaveformInfo[ChannelOfTx(w, i)].start_address

\* C27 happens: a call went through the three channels, the first of which
\* failed at its second transaction
C27_Witness ==
  \E w \in WorkerIds :
     /\ workers[w].cls = "waveform"
     /\ ChannelFailed(w, 1)
     /\ Cardinality(ChannelTransactions(w, 1)) = 2
     /\ ChannelTransactions(w, 2) # {}
     /\ ChannelTransactions(w, 3) # {}

\* the while loop of the channel followed has been left
LoopLeft == loop.wk.pc # "chunk_issue" \/ loop.wk.idx # loop.k

\* no transaction of the loop failed
LoopAllOk == \A i \in 1..Len(loop.wk.txlog) : loop.wk.txlog[i].outcome = "ok"

\* C28: for every max_read_count >= 1 and whatever fails, the chunk loop of a
\* channel issues at most 128 transactions, each for 1 to max_read_count
\* registers, starting at the channel's base and each beginning where the one
\* before ended; while the loop runs, what remains to be read is what lies
\* between the next address and base+128; a loop left without failure has
\* covered base .. base+127 and stored those 128 registers.
C28_ChunkLoopCovers ==
  LoopIdle \/
  LET t    == loop.wk.txlog
      base == WaveformInfo[loop.k].start_address
      end  == base + WaveformInfo[loop.k].registers_to_read
  IN  /\ Len(t) <= CHANNEL_WIDTH
      /\ \A i \in 1..Len(t) : t[i].count >= 1 /\ t[i].count <= loop.max_read_count
      /\ t # << >> => t[1].address = base
      /\ \A i \in 1..(Len(t) - 1) : t[i + 1].address = t[i].address + t[i].count
      /\ ~LoopLeft => /\ loop.wk.remaining >= 1
                      /\ loop.wk.address + loop.wk.remaining = end
      /\ (LoopLeft /\ LoopAllOk) =>
            /\ t[Len(t)].address + t[Len(t)].count = end
            /\ loop.wk.data[loop.k] =
                  [name |-> WaveformInfo[loop.k].name, value |-> ChannelImage(base)]

\* C28 happens: a channel was read without failure by three registers at a
\* time, the last transaction taking the two that were left
C28_Witness ==
  /\ ~LoopIdle /\ LoopLeft /\ LoopAllOk
  /\ loop.max_read_count = 3
  /\ loop.wk.txlog[Len(loop.wk.txlog)].count = 2

\* C29: in each of the three applications, whenever control is back in the
\* event loop (no slot is suspended in processEvents), the recurring timer is
\* active only if the window refers to a reader whose connected flag is true.
C29_TimerOnlyWhenConnected ==
  stack = << >> => (timerActive => IsConnected(Gui))

\* the UHF monitor is back in the event loop with its timer running on a
\* connection made after an earlier one was closed with the timer stopped
C29_Witness ==
  /\ app = UHF /\ stack = << >>
  /\ timerActive /\ IsConnected(Gui)
  /\ closeObs.called /\ closeObs.timer = FALSE

\* the finished signal at the head of the queue is delivered
FinishedDelivered ==
  /\ queue # << >> /\ Head(queue).sig = "finished"
  /\ queue' = Tail(queue)

\* C30: a finished notification clears a worker reference only for the worker
\* the reference points to: when the finished signal of some worker is
\* delivered while telemetry_worker (waveforms_worker) refers to another worker
\* that is still running, the reference is left as it is.
C30_FinishedClearsOwnWorkerOnly ==
  [][ FinishedDelivered =>
        /\ (telemetry_worker # Head(queue).w /\ RunningIn(Gui, telemetry_worker))
              => telemetry_worker' = telemetry_worker
        /\ (waveforms_worker # Head(queue).w /\ RunningIn(Gui, waveforms_worker))
              => waveforms_worker' = waveforms_worker ]_vars

\* worker w is created and started in this step
Created(w) == workers'[w].pc = "start" /\ workers[w].pc # "start"

\* C31: while the application is disconnected (disconnect_device has set the
\* reader to None and no connect_device has succeeded since), no worker is
\* created or started, also when the disconnect was dispatched by the
\* processEvents() of a trigger_data_update that had passed its test.
C31_NoWorkerWhileDisconnected ==
  [][ reader = 0 => \A w \in WorkerIds : ~Created(w) ]_vars

\* update_data of the non-threaded application leaves processEvents() and
\* calls self.reader.read_telemetry_data()
SyncReadsIssued ==
  /\ app = SYNC
  /\ stack # << >> /\ Top.kind = "trigger"
  /\ stack' = Pop

\* C32: in the non-threaded application the reader that update_data found
\* present and connected is still present when, after processEvents(), the
\* reads are issued.
C32_ReaderPresentAtReads ==
  [][ SyncReadsIssued => reader # 0 ]_vars

\* the window called disconnect() on its connected reader r in this step: the
\* only statements that drop a connected reader follow that call
DisconnectCalled(r) == reader = r /\ connected[r] /\ reader' # r

\* C33: after disconnect() of a reader returns, the reader's connected flag is
\* false, whether or not client.close() raised.
C33_DisconnectClearsFlag ==
  [][ \A r \in ReaderIds : DisconnectCalled(r) => ~connected'[r] ]_vars

\* connect_device (both all_sensors files) goes on after its processEvents()
\* and returns, or stops in the processEvents() of the poll it triggered
ConnectReturned ==
  /\ stack # << >> /\ Top.kind = "connect"
  /\ stack' # stack /\ Len(stack') <= Len(stack)
  /\ ~crashed'

\* toggle_connection of the UHF monitor made a monitor and connected it
UhfConnected == app = UHF /\ reader = 0 /\ reader' # 0

\* toggle_connection goes on after its update_data() and returns
UhfToggleReturned == app = UHF /\ stack # << >> /\ Top.kind = "toggle" /\ stack' = Pop

\* C34: a connect_device that fails leaves the application disconnected: no
\* reader, the timer not running, no poll triggered, no worker started.  One
\* that succeeds triggers exactly one poll, and the timer runs afterwards only
\* if the combo is not at the manual index.  The same for the connect branch of
\* toggle_connection, whose poll comes before the timer is set.
C34_ConnectOutcome ==
  [][ /\ ConnectReturned =>
           IF reader' = 0
           THEN /\ ~timerActive'
                /\ stack' = Pop
                /\ \A w \in WorkerIds : ~Created(w)
           ELSE /\ connected'[reader']
                /\ stack' = Append(Pop, Frame("trigger"))
                /\ timerActive' => comboIndex' # 0
      /\ UhfConnected =>
           /\ connected'[reader']
           /\ stack' = Append(stack, Frame("toggle"))
           /\ ~timerActive'
      /\ UhfToggleReturned => (timerActive' => comboIndex' # 0)
      /\ (app = UHF /\ reader = 0 /\ reader' = 0) =>
           (~timerActive' /\ Len(stack') <= Len(stack)) ]_vars

\* a connect_device that first disconnected the reader in use has succeeded
\* with an interval selected: its poll is at processEvents() and the timer runs
C34_Witness ==
  /\ app = THREADED
  /\ closeObs.called
  /\ stack # << >> /\ Top.kind = "trigger"
  /\ timerActive /\ comboIndex # 0
  /\ telemetry_worker = 0 /\ waveforms_worker = 0

\* update_data of the UHF monitor, called by the timer, the refresh button or
\* toggle_connection, has returned in this step
UhfUpdateReturned ==
  /\ app = UHF
  /\ stack # << >> /\ Top.kind \in {"trigger", "toggle"}
  /\ stack' = Pop

\* C35: in the UHF monitor an exception raised inside update_data is caught,
\* and if the timer was active it is stopped and the combo set to index 0
\* (off); the timer of this application never runs with the combo at off, so
\* there is no automatic poll until an interval is selected again.
C35_ExceptionStopsTimer ==
  [][ /\ (UhfUpdateReturned /\ exceptObs'.raised /\ exceptObs'.timer)
            => (~timerActive' /\ comboIndex' = 0)
      /\ app = UHF => (timerActive' => comboIndex' # 0) ]_vars

\* the monitor is still connected, its last update_data raised with the timer
\* running, and now the timer is stopped and the combo at off
C35_Witness ==
  /\ app = UHF /\ stack = << >>
  /\ IsConnected(Gui)
  /\ exceptObs.raised /\ exceptObs.timer
  /\ ~timerActive /\ comboIndex = 0

\* the decoder of the other reader class applied to the same registers
OtherDecoder(by, registers) ==
  IF by = "UHFMonitor" THEN ReadFloatResult(registers) ELSE UhfReadFloatResult(registers)

\* C36: for every pair of registers the four bytes UHFMonitor.read_float packs
\* from (r1 << 16) | r0 are the four bytes AllSensorsReader.read_float hands to
\* the float conversion, and whichever read_float was called returned what the
\* other returns for the same registers.
C36_DecodersAgree ==
  (decoded.by # "none" /\ Len(response) = 2) =>
     /\ PackI(Combined(response)) = UnpackWords(SubSeq(PayloadBytes(response), 1, 4))
     /\ decoded.value = OtherDecoder(decoded.by, response)

\* C36 happens: UHFMonitor.read_float decoded the pair 0x00FF, 0x8000, which
\* any other order of bytes or words would decode differently, and
\* AllSensorsReader.read_float gives the same float for it
C36_Witness ==
  /\ decoded.by = "UHFMonitor"
  /\ response = << 255, 32768 >>
  /\ decoded.value = [t |-> "float", v |-> << 32768, 255 >>]
  /\ ReadFloatResult(response) = decoded.value

\* the (address, count) pairs of a transaction log, in order
Pairs(t) == [i \in 1..Len(t) |-> << t[i].address, t[i].count >>]

\* C37: on the same device responses read_uhf_waveform and the UHF channel of
\* read_waveform_data have issued the same transactions (address, count), one
\* has returned exactly when the other has left the channel, and then both
\* give the same buffer: the 128 registers from 2256 on if nothing failed, the
\* empty list after a failed chunk or an exception.
C37_UhfWaveformsEquivalent ==
  loop.uhf.pc # "free" =>
     /\ Pairs(loop.uhf.txlog) = Pairs(loop.wk.txlog)
     /\ loop.uhf.pc = "returned" <=> LoopLeft
     /\ loop.uhf.pc = "returned" =>
           /\ loop.uhf.ret = loop.wk.data[loop.k].value
           /\ loop.uhf.ret = IF LoopAllOk THEN ChannelImage(UHF_BASE) ELSE << >>

\* C37 happens: both have read the UHF channel with two transactions, the
\* second for the 3 registers left, and read_uhf_waveform returned 128 registers
C37_Witness ==
  /\ loop.uhf.pc = "returned"
  /\ Len(loop.uhf.ret) = CHANNEL_WIDTH
  /\ Pairs(loop.wk.txlog) = << << UHF_BASE, MAX_READ_COUNT >>,
                               << UHF_BASE + MAX_READ_COUNT, CHANNEL_WIDTH - MAX_READ_COUNT >> >>

====
